---- MODULE Spec2Model ----
(***************************************************************************)
(* Segmented execution contexts of context-node:                            *)
(*   - the promise lineage tracker (src/src/promise_context.cc),            *)
(*   - the controller stack, the execution context view and the process     *)
(*     wide registry of views (src/unnamed/part_003, the `context` module). *)
(*                                                                          *)
(* JavaScript objects that are compared by identity or mutated in place     *)
(* (ContextControllerStack, ExecutionContextViewImpl) live in heaps         *)
(* (`stacks`, `views`) and are named by their index.  Frames are never      *)
(* mutated after they are built and are plain values.                       *)
(***************************************************************************)
EXTENDS Integers, Sequences, FiniteSets, TLC

(***************************************************************************)
(* Bounds of the model.                                                     *)
(***************************************************************************)
\* frames alive on all controller stacks together
MaxFrames == 3
\* nested runInContext activations
MaxDepth == 1
\* ExecutionContextViewImpl objects ever built
MaxViews == 2
\* promise handles the runtime announces
NumPromises == 2
\* ids the tracker hands out (promise_count_)
MaxIds == 2
\* outstanding init events per record (active_count_)
MaxActive == 2
\* entries of promise_stack_
MaxJobs == 2
\* functions user code wraps with wrapFunction
MaxWrappers == 1
\* matchers user code compiles with _toMatcher
MaxMatchers == 1
\* wrapped functions running inside one another, in the nested file access
MaxNesting == 2
\* calls user code makes on one matcher
MaxMatcherCalls == 3
\* bits of the id counter promise_count_ (uint32_t in the build; the model
\* counts in a narrower word so that the wrap of the counter is in reach)
IdBits == 3

(***************************************************************************)
(* Value universes.                                                         *)
(***************************************************************************)
\* segment names used by callers
Segments == {"s1", "s2"}

\* identities of the controllers user code installs
Roots == {"c1", "c2"}

\* per-call data handed to createChild: the test controller vetoes the call
\* unless data.allow is set; FileAccessController.createChild throws on data
\* that is not an object ("bad")
DataValues == {"allow", "deny", "bad"}

\* random 32 character tokens; two draws of _create_frame_id never coincide
\* (62^32 values), so a draw is modelled as the first token not in use
Tokens == 1 .. 8

\* an id that no call of _create_frame_id returned ('a' in the tests)
BogusId == 0

Promises == 1 .. NumPromises

\* `undefined`/null where a promise handle is expected
NoPromise == 0

\* number of values of the unsigned counter promise_count_
IdModulus == 2 ^ IdBits

\* a controller object installed by user code
RootController(r) == [kind |-> "controller", root |-> r, data |-> "root"]

\* a value that lacks createChild / onContext
NotAController == [kind |-> "other", root |-> "", data |-> ""]

\* null, as returned by getSegmentController
Null == [kind |-> "null", root |-> "", data |-> ""]

VARIABLES
    active_promises,   \* tracker: handle -> [id, parent, active_count]
    promise_stack,     \* tracker: ids of the executing jobs, top last
    promise_count,     \* tracker: last id handed out
    stacks,            \* heap of ContextControllerStack: index -> frames
    views,             \* heap of ExecutionContextViewImpl
    threadNameToView,  \* registry: context name -> view (heap index)
    threadIdToName,    \* registry: '#' + promise id -> context name, as the
                       \* entries [id, name] of the object in insertion order
    calls,             \* runInContext activations suspended in their target
    held,              \* frame ids user code got from pushControllers
    started,           \* history: <<id, name, view>> of successful startPromise
    announced,         \* history: handle -> [id, parent] as init announced it
                       \* last, kept when the record is destroyed
    jobs,              \* history of the runtime that nests its jobs: the
                       \* handles of the open jobs, innermost last, and for
                       \* each handle its init events not yet used by a before
    wrapped,           \* wrapPromise calls: [name, finally, phase]
    wrappers,          \* functions wrapFunction returned: [segmentOptions],
                       \* with the history of the views they ran on
    compiled,          \* matchers user code got from _toMatcher, each with
                       \* the history of the calls made on it
    lastIndex,         \* RegExp objects of user code: their lastIndex
    last               \* the API call that was made last, and its outcome

vars == <<active_promises, promise_stack, promise_count, stacks, views,
          threadNameToView, threadIdToName, calls, held, started, announced,
          jobs, wrapped, wrappers, compiled, lastIndex, last>>

trackerVars == <<active_promises, promise_stack, promise_count, announced,
                 jobs>>
registryVars == <<threadNameToView, threadIdToName, started, wrapped>>
heapVars == <<stacks, views>>
matcherVars == <<compiled, lastIndex>>

(***************************************************************************)
(* Frame ids and context names.                                             *)
(***************************************************************************)
FrameIds(stk) == {stk[i].id : i \in 1 .. Len(stk)}

TokensInUse ==
    UNION {FrameIds(stacks[i]) : i \in 1 .. Len(stacks)}
        \cup held
        \cup DOMAIN threadNameToView
        \cup {threadIdToName[k].name : k \in 1 .. Len(threadIdToName)}
        \cup {s[2] : s \in started}
        \cup {wrapped[k].name : k \in 1 .. Len(wrapped)}

FreeTokens(drawn) == Tokens \ (TokensInUse \cup drawn)

\* _create_frame_id, `drawn` being the tokens drawn earlier in the same call
create_frame_id(drawn) ==
    CHOOSE t \in FreeTokens(drawn) : \A u \in FreeTokens(drawn) : t <= u

(***************************************************************************)
(* ContextControllerStack                                                   *)
(***************************************************************************)
isSegmentContextualController(value) == value.kind = "controller"

\* a copy that keeps the entries newSegs already has
CopyIntoKeeping(newSegs, src) ==
    [k \in DOMAIN newSegs \cup DOMAIN src |->
        IF k \in DOMAIN newSegs THEN newSegs[k] ELSE src[k]]

\* for (var k in src) newSegs[k] = src[k]
CopyInto(newSegs, src) ==
    [k \in DOMAIN newSegs \cup DOMAIN src |->
        IF k \in DOMAIN src THEN src[k] ELSE newSegs[k]]

RECURSIVE ForkLoop(_, _, _)
ForkLoop(stk, i, newSegs) ==
    IF i > Len(stk) THEN newSegs
    ELSE ForkLoop(stk, i + 1, CopyInto(newSegs, stk[i].segs))

\* a fork that copies the frames of the source as they are
StackForkCopying(stk, frameId) == stk

\* ContextControllerStack.fork: the frames of the new stack
StackFork(stk, frameId) ==
    << [id |-> frameId, segs |-> ForkLoop(stk, 1, <<>>)] >>

\* ContextControllerStack.push
StackPush(stk, segmentControllers, frameId) ==
    IF \E kind \in DOMAIN segmentControllers :
          ~isSegmentContextualController(segmentControllers[kind])
    THEN [err |-> "ERR_INVALID_ARG_TYPE", stack |-> stk]
    ELSE [err |-> "ok",
          stack |-> Append(stk, [id |-> frameId, segs |-> segmentControllers])]

isEmpty(stk) == Len(stk) <= 0

\* pop that takes the top frame whatever id it is given
StackPopAnyId(stk, frameId) ==
    IF isEmpty(stk)
    THEN [err |-> "ERR_INDEX_OUT_OF_RANGE", stack |-> stk]
    ELSE [err |-> "ok", stack |-> SubSeq(stk, 1, Len(stk) - 1)]

\* pop that removes the top frame before it compares the ids
StackPopThenCheck(stk, frameId) ==
    IF isEmpty(stk)
    THEN [err |-> "ERR_INDEX_OUT_OF_RANGE", stack |-> stk]
    ELSE [err |-> IF stk[Len(stk)].id # frameId
                  THEN "ERR_INVALID_ARG_VALUE" ELSE "ok",
          stack |-> SubSeq(stk, 1, Len(stk) - 1)]

\* ContextControllerStack.pop
StackPop(stk, frameId) ==
    IF isEmpty(stk)
    THEN [err |-> "ERR_INDEX_OUT_OF_RANGE", stack |-> stk]
    ELSE IF stk[Len(stk)].id # frameId
    THEN [err |-> "ERR_INVALID_ARG_VALUE", stack |-> stk]
    ELSE [err |-> "ok", stack |-> SubSeq(stk, 1, Len(stk) - 1)]

RECURSIVE SegmentLoop(_, _, _)
SegmentLoop(stk, i, segmentId) ==
    IF i < 1 THEN Null
    ELSE IF segmentId \in DOMAIN stk[i].segs THEN stk[i].segs[segmentId]
    ELSE SegmentLoop(stk, i - 1, segmentId)

\* ContextControllerStack.getSegmentController
getSegmentController(stk, segmentId) == SegmentLoop(stk, Len(stk), segmentId)

(***************************************************************************)
(* Controllers.  createChild and onContext of the controllers the           *)
(* repository ships: the test controller (test-stack-context.js) and        *)
(* FileAccessController (security_context.js).                              *)
(***************************************************************************)
\* createChild: a per-call controller that keeps the identity of the
\* controller it comes from; FileAccessController throws on non-object data
createChild(controller, data) ==
    IF data = "bad"
    THEN [err |-> "ERR_INVALID_ARG_TYPE", child |-> Null]
    ELSE [err |-> "ok",
          child |-> [kind |-> "controller", root |-> controller.root,
                     data |-> data]]

\* onContext: TRUE when the controller calls invoker.invoke(), FALSE when it
\* throws before doing so
onContextInvokes(controller) == controller.data = "allow"

(***************************************************************************)
(* FileAccessController (src/lib/security_context.js).                      *)
(*                                                                          *)
(* A JavaScript string is the sequence of the pieces that split(/\\|\//)    *)
(* gives: "/a/f" is <<"", "a", "f">>, "/a/" is <<"", "a", "">>, "r+" is     *)
(* <<"r+">>.  A matcher, a closure in the source, is the record of what the *)
(* closure holds.                                                           *)
(***************************************************************************)
Str(segs) == [type |-> "string", segs |-> segs]
JsNull == [type |-> "null", segs |-> <<>>]
JsUndefined == [type |-> "undefined", segs |-> <<>>]
Arr(items) == [type |-> "array", items |-> items]

isString(value) == value.type = "string"
isNullish(value) == value.type \in {"null", "undefined"}

\* path.normalize on a POSIX path: empty pieces and "." go, ".." takes the
\* piece before it (above the root there is none); `acc` is the result so far
RECURSIVE NormalizeLoop(_, _, _, _)
NormalizeLoop(segs, i, acc, isAbsolute) ==
    IF i > Len(segs) THEN acc
    ELSE IF segs[i] \in {"", "."}
    THEN NormalizeLoop(segs, i + 1, acc, isAbsolute)
    ELSE IF segs[i] = ".."
    THEN IF acc # <<>> /\ acc[Len(acc)] # ".."
         THEN NormalizeLoop(segs, i + 1, SubSeq(acc, 1, Len(acc) - 1),
                            isAbsolute)
         ELSE IF isAbsolute
         THEN NormalizeLoop(segs, i + 1, acc, isAbsolute)
         ELSE NormalizeLoop(segs, i + 1, Append(acc, ".."), isAbsolute)
    ELSE NormalizeLoop(segs, i + 1, Append(acc, segs[i]), isAbsolute)

\* pathModule.normalize(pathModule.toNamespacedPath(getPathFromURL(s))) for a
\* string s on POSIX, where the two inner calls return their argument
normalize(segs) ==
    LET isAbsolute == Len(segs) > 1 /\ segs[1] = ""
        trailing == Len(segs) > 1 /\ segs[Len(segs)] = ""
        body == NormalizeLoop(segs, 1, <<>>, isAbsolute)
    IN  IF segs = <<"">> THEN <<".">>
        ELSE IF isAbsolute
        THEN IF body = <<>> THEN <<"", "">>
             ELSE <<"">> \o body \o (IF trailing THEN <<"">> ELSE <<>>)
        ELSE IF body = <<>> THEN IF trailing THEN <<".", "">> ELSE <<".">>
        ELSE body \o (IF trailing THEN <<"">> ELSE <<>>)

\* FileAccessController.normalizePath
normalizePath(path) ==
    IF isNullish(path) THEN JsNull
    ELSE IF path.type = "thrown" THEN path
    ELSE Str(normalize(path.segs))

\* _ARGUMENT_RE on a resource definition: the index it names, -1 when the
\* definition is not of the form {N}
ArgumentIndex(resourceDef) ==
    IF resourceDef.segs = <<"{0}">> THEN 0
    ELSE IF resourceDef.segs = <<"{1}">> THEN 1
    ELSE IF resourceDef.segs = <<"{2}">> THEN 2
    ELSE -1

\* _OPTION_RE on a resource definition: the index and the key it names, the
\* index being -1 when the definition is not of the form {N.key}
OptionRef(resourceDef) ==
    IF resourceDef.segs = <<"{0.p}">> THEN [index |-> 0, key |-> "p"]
    ELSE IF resourceDef.segs = <<"{1.p}">> THEN [index |-> 1, key |-> "p"]
    ELSE IF resourceDef.segs = <<"{0.0}">> THEN [index |-> 0, key |-> "0"]
    ELSE [index |-> -1, key |-> ""]

\* a number, an object with the properties `fields`, and the completion of
\* an expression that throws
Num(n) == [type |-> "number", n |-> n]
Rec(fields) == [type |-> "record", fields |-> fields]
Thrown(name) == [type |-> "thrown", name |-> name]

\* typeof value === 'object'
typeofObject(value) ==
    value.type \in {"null", "array", "object", "record", "regexp"}

\* arg[key] for the keys of OptionRef: reading a property of null throws
Member(arg, key) ==
    IF arg.type = "null" THEN Thrown("TypeError")
    ELSE IF arg.type = "record"
    THEN IF key \in DOMAIN arg.fields THEN arg.fields[key] ELSE JsUndefined
    ELSE IF arg.type = "array" /\ key = "0" /\ Len(arg.items) > 0
    THEN arg.items[1]
    ELSE JsUndefined

\* _getResourceArg
getResourceArg(resourceDef, args) ==
    IF isString(resourceDef) /\ ArgumentIndex(resourceDef) >= 0
    THEN IF ArgumentIndex(resourceDef) < Len(args)
         THEN args[ArgumentIndex(resourceDef) + 1]
         ELSE JsUndefined
    ELSE IF isString(resourceDef) /\ OptionRef(resourceDef).index >= 0
    THEN IF /\ OptionRef(resourceDef).index < Len(args)
            /\ typeofObject(args[OptionRef(resourceDef).index + 1])
         THEN Member(args[OptionRef(resourceDef).index + 1],
                     OptionRef(resourceDef).key)
         ELSE JsUndefined
    ELSE resourceDef

\* the characters of the pieces the strings of the model are made of
CharsOf(piece) ==
    CASE piece = "" -> <<>>
      [] piece \in {"a", "b", "f", "g", "r", "w", "+", "*", "?", "."} ->
             <<piece>>
      [] piece = "r+" -> <<"r", "+">>
      [] piece = "w+" -> <<"w", "+">>
      [] piece = ".." -> <<".", ".">>
      [] piece = "**" -> <<"*", "*">>
      [] piece = "f*" -> <<"f", "*">>
      [] piece = "fg" -> <<"f", "g">>
      [] piece = "re:" -> <<"r", "e", ":">>
      [] piece = "222" -> <<"2", "2", "2">>
      [] piece = "{0}" -> <<"{", "0", "}">>
      [] piece = "{1}" -> <<"{", "1", "}">>
      [] piece = "{2}" -> <<"{", "2", "}">>
      [] OTHER -> <<>>

\* the characters of a string: those of its pieces, a separator between them
RECURSIVE CharsFrom(_, _)
CharsFrom(segs, i) ==
    IF i > Len(segs) THEN <<>>
    ELSE IF i = Len(segs) THEN CharsOf(segs[i])
    ELSE CharsOf(segs[i]) \o <<"/">> \o CharsFrom(segs, i + 1)

CharsOfString(segs) == CharsFrom(segs, 1)

\* _isGlob on a sequence of characters
isGlob(chars) == \E i \in 1 .. Len(chars) : chars[i] \in {"*", "?"}

\* one element of a parsed regular expression
Tok(k, ch) == [k |-> k, ch |-> ch]

\* new RegExp(source), for sources made of characters, escaped characters,
\* `.`, `.*`, `.*?`, `^` and `$`
RECURSIVE RegExpLoop(_, _, _)
RegExpLoop(source, i, acc) ==
    IF i > Len(source) THEN acc
    ELSE IF source[i] = "\\" /\ i < Len(source)
    THEN RegExpLoop(source, i + 2, Append(acc, Tok("lit", source[i + 1])))
    ELSE IF source[i] = "^"
    THEN RegExpLoop(source, i + 1, Append(acc, Tok("bol", "")))
    ELSE IF source[i] = "$"
    THEN RegExpLoop(source, i + 1, Append(acc, Tok("eol", "")))
    ELSE IF source[i] = "."
    THEN IF i + 2 <= Len(source) /\ source[i + 1] = "*"
            /\ source[i + 2] = "?"
         THEN RegExpLoop(source, i + 3, Append(acc, Tok("run", "")))
         ELSE IF i + 1 <= Len(source) /\ source[i + 1] = "*"
         THEN RegExpLoop(source, i + 2, Append(acc, Tok("run", "")))
         ELSE RegExpLoop(source, i + 1, Append(acc, Tok("any", "")))
    ELSE RegExpLoop(source, i + 1, Append(acc, Tok("lit", source[i])))

RegExp(source) == RegExpLoop(source, 1, <<>>)

\* the positions at which a match of toks[t..] that starts after the first j
\* characters of `chars` can end
RECURSIVE EndsAt(_, _, _, _)
EndsAt(toks, t, chars, j) ==
    IF t > Len(toks) THEN {j}
    ELSE IF toks[t].k = "lit"
    THEN IF j < Len(chars) /\ chars[j + 1] = toks[t].ch
         THEN EndsAt(toks, t + 1, chars, j + 1) ELSE {}
    ELSE IF toks[t].k = "any"
    THEN IF j < Len(chars) THEN EndsAt(toks, t + 1, chars, j + 1) ELSE {}
    ELSE IF toks[t].k = "run"
    THEN UNION {EndsAt(toks, t + 1, chars, k) : k \in j .. Len(chars)}
    ELSE IF toks[t].k = "bol"
    THEN IF j = 0 THEN EndsAt(toks, t + 1, chars, j) ELSE {}
    ELSE IF j = Len(chars) THEN EndsAt(toks, t + 1, chars, j) ELSE {}

\* RegExp.prototype.test of a regular expression without the flags g and y
RegExpTest(toks, chars) ==
    \E start \in 0 .. Len(chars) : EndsAt(toks, 1, chars, start) # {}

\* the replacements _mkGlobMatcher makes in a piece of a glob, for one
\* character of the piece
GlobCharSource(c) ==
    CASE c = "\\" -> <<"\\", "\\">>
      [] c = "." -> <<"\\", ".">>
      [] c = "?" -> <<".">>
      [] c = "*" -> <<".", "*", "?">>
      [] c \in {"-", "[", "]", "/", "{", "}", "(", ")", "+", "^", "$", "|"} ->
             <<"\\", c>>
      [] OTHER -> <<c>>

RECURSIVE GlobSource(_, _)
GlobSource(chars, i) ==
    IF i > Len(chars) THEN <<>>
    ELSE GlobCharSource(chars[i]) \o GlobSource(chars, i + 1)

\* new RegExp('^' + p + '$') for a piece of a glob
GlobRegExp(piece) ==
    RegExp(<<"^">> \o GlobSource(CharsOf(piece), 1) \o <<"$">>)

\* an entry of `globs`: a string or a regular expression
GlobString(piece) == [k |-> "string", piece |-> piece, toks |-> <<>>]
GlobPattern(piece) == [k |-> "regexp", piece |-> piece, toks |-> GlobRegExp(piece)]

\* a loop body that also takes a piece `**` for the sentinel
GlobEntryStarStar(paths, i) ==
    IF paths[i] = ""
    THEN IF i > 1 \/ i >= Len(paths) THEN <<GlobString("**")>> ELSE <<>>
    ELSE IF paths[i] = "**" THEN <<GlobString("**")>>
    ELSE IF isGlob(CharsOf(paths[i])) THEN <<GlobPattern(paths[i])>>
    ELSE <<GlobString(paths[i])>>

\* _mkGlobMatcher, the body of the loop over the pieces of the normalized
\* glob: what it pushes for piece i
GlobEntry(paths, i) ==
    IF paths[i] = ""
    THEN IF i > 1 \/ i >= Len(paths) THEN <<GlobString("**")>> ELSE <<>>
    ELSE IF isGlob(CharsOf(paths[i])) THEN <<GlobPattern(paths[i])>>
    ELSE <<GlobString(paths[i])>>

RECURSIVE GlobEntries(_, _)
GlobEntries(paths, i) ==
    IF i > Len(paths) THEN <<>>
    ELSE GlobEntry(paths, i) \o GlobEntries(paths, i + 1)

\* _globMatcher: the loop, g and pos counting from 1
RECURSIVE GlobLoop(_, _, _, _)
GlobLoop(globPaths, g, paths, pos) ==
    IF ~(g <= Len(globPaths) /\ pos <= Len(paths))
    THEN pos > Len(paths) /\ g > Len(globPaths)
    ELSE IF \A q \in pos .. Len(paths) : paths[q] = ""
    THEN FALSE
    ELSE LET at == CHOOSE q \in pos .. Len(paths) :
                       paths[q] # "" /\ \A u \in pos .. q - 1 : paths[u] = ""
         IN  IF globPaths[g].k = "string"
             THEN IF globPaths[g].piece = "**" THEN TRUE
                  ELSE IF paths[at] # globPaths[g].piece THEN FALSE
                  ELSE GlobLoop(globPaths, g + 1, paths, at + 1)
             ELSE IF ~RegExpTest(globPaths[g].toks, CharsOf(paths[at]))
             THEN FALSE
             ELSE GlobLoop(globPaths, g + 1, paths, at + 1)

\* _globMatcher
globMatcher(globPaths, s) == GlobLoop(globPaths, 1, s, 1)

\* _mkGlobMatcher
mkGlobMatcher(glob) ==
    IF ~isString(glob) \/ glob.segs = <<"">>
    THEN [err |-> "ERR_INVALID_ARG_TYPE", matcher |-> [m |-> "never"]]
    ELSE IF Len(CharsOfString(glob.segs)) >= 3
            /\ SubSeq(CharsOfString(glob.segs), 1, 3) = <<"r", "e", ":">>
    THEN [err |-> "ok",
          matcher |->
              [m |-> "regexp",
               toks |-> RegExp(SubSeq(CharsOfString(glob.segs), 4,
                                      Len(CharsOfString(glob.segs))))]]
    ELSE LET gs == normalize(glob.segs)
             stripped == IF gs[Len(gs)] = ""
                         THEN SubSeq(gs, 1, Len(gs) - 1) ELSE gs
         IN  IF ~isGlob(CharsOfString(glob.segs))
             THEN IF Len(glob.segs) > 1 /\ glob.segs[Len(glob.segs)] = ""
                  THEN [err |-> "ok",
                        matcher |-> [m |-> "under", gs |-> stripped]]
                  ELSE [err |-> "ok", matcher |-> [m |-> "equals", gs |-> gs]]
             ELSE [err |-> "ok",
                   matcher |-> [m |-> "glob", globs |-> GlobEntries(gs, 1)]]

\* a RegExp object of user code, by its identity
Re(id) == [type |-> "regexp", id |-> id]

\* the RegExp objects of user code: /f/ and /f/g
RegExpObjects ==
    << [source |-> <<"f">>, global |-> FALSE],
       [source |-> <<"f">>, global |-> TRUE] >>

\* _mkRegExpMatcher
mkRegExpMatcher(re) == [m |-> "match", obj |-> re.id]

\* _mkListMatcher
mkListMatcher(vl) == [m |-> "list", of |-> vl]

\* _toMatcher, the body of the loop over the elements of an array
ElementMatcher(element) ==
    IF isString(element) THEN mkGlobMatcher(element)
    ELSE IF element.type = "regexp"
    THEN [err |-> "ok", matcher |-> mkRegExpMatcher(element)]
    ELSE [err |-> "ERR_INVALID_ARG_TYPE", matcher |-> [m |-> "never"]]

\* a compiler that takes a missing pattern for "everything"
toMatcherOpen(value, argName) ==
    IF isNullish(value)
    THEN [err |-> "ok", matcher |-> [m |-> "under", gs |-> <<>>]]
    ELSE IF isString(value) THEN mkGlobMatcher(value)
    ELSE IF value.type = "regexp"
    THEN [err |-> "ok", matcher |-> [m |-> "test", obj |-> value.id]]
    ELSE IF value.type = "array"
    THEN IF \E i \in 1 .. Len(value.items) :
               ElementMatcher(value.items[i]).err # "ok"
         THEN [err |-> "ERR_INVALID_ARG_TYPE", matcher |-> [m |-> "never"]]
         ELSE [err |-> "ok",
               matcher |->
                   mkListMatcher([i \in 1 .. Len(value.items) |->
                                     ElementMatcher(value.items[i]).matcher])]
    ELSE [err |-> "ERR_INVALID_ARG_TYPE", matcher |-> [m |-> "never"]]

\* _toMatcher
toMatcher(value, argName) ==
    IF isNullish(value)
    THEN [err |-> "ok", matcher |-> [m |-> "never"]]
    ELSE IF isString(value) THEN mkGlobMatcher(value)
    ELSE IF value.type = "regexp"
    THEN [err |-> "ok", matcher |-> [m |-> "test", obj |-> value.id]]
    ELSE IF value.type = "array"
    THEN IF \E i \in 1 .. Len(value.items) :
               ElementMatcher(value.items[i]).err # "ok"
         THEN [err |-> "ERR_INVALID_ARG_TYPE", matcher |-> [m |-> "never"]]
         ELSE [err |-> "ok",
               matcher |->
                   mkListMatcher([i \in 1 .. Len(value.items) |->
                                     ElementMatcher(value.items[i]).matcher])]
    ELSE [err |-> "ERR_INVALID_ARG_TYPE", matcher |-> [m |-> "never"]]

\* the call matcher(s) of a closure that holds no RegExp object of user code
\* and is not a list
MatchesOne(matcher, s) ==
    IF matcher.m = "equals" THEN s = matcher.gs
    ELSE IF matcher.m = "under"
    THEN Len(s) > Len(matcher.gs)
             /\ SubSeq(s, 1, Len(matcher.gs)) = matcher.gs
    ELSE IF matcher.m = "regexp"
    THEN RegExpTest(matcher.toks, CharsOfString(s))
    ELSE IF matcher.m = "glob" THEN globMatcher(matcher.globs, s)
    ELSE FALSE

\* the call matcher(s) of a closure that holds no RegExp object of user code
Matches(matcher, s) ==
    IF matcher.m = "list"
    THEN \E i \in 1 .. Len(matcher.of) : MatchesOne(matcher.of[i], s)
    ELSE MatchesOne(matcher, s)

\* re.test(s) for a RegExp object of user code, `li` being the lastIndex of
\* the objects: the result and the lastIndex afterwards.  With the flag g
\* the search starts at lastIndex, which is left at the end of the match or
\* at 0 when there is none.
RegExpObjectTest(id, chars, li) ==
    LET toks == RegExp(RegExpObjects[id].source)
        starts == {st \in li[id] .. Len(chars) :
                      EndsAt(toks, 1, chars, st) # {}}
        first == CHOOSE st \in starts : \A u \in starts : st <= u
        ends == EndsAt(toks, 1, chars, first)
    IN  IF ~RegExpObjects[id].global
        THEN [result |-> IF RegExpTest(toks, chars) THEN "true" ELSE "false",
              lastIndex |-> li]
        ELSE IF starts = {}
        THEN [result |-> "false", lastIndex |-> [li EXCEPT ![id] = 0]]
        ELSE [result |-> "true",
              lastIndex |->
                  [li EXCEPT ![id] = CHOOSE e \in ends :
                                         \A u \in ends : e <= u]]

\* the call matcher(s) of a closure that is not a list: what it returns
\* ("TypeError" when it throws) and the lastIndex of the RegExp objects
\* afterwards; _mkRegExpMatcher's closure calls re.match(), which no RegExp
\* has
CallOne(matcher, s, li) ==
    IF matcher.m = "test" THEN RegExpObjectTest(matcher.obj, CharsOfString(s), li)
    ELSE IF matcher.m = "match"
    THEN [result |-> "TypeError", lastIndex |-> li]
    ELSE [result |-> IF MatchesOne(matcher, s) THEN "true" ELSE "false",
          lastIndex |-> li]

\* the loop of the closure _mkListMatcher returns
RECURSIVE ListLoop(_, _, _, _)
ListLoop(vl, i, s, li) ==
    IF i > Len(vl) THEN [result |-> "false", lastIndex |-> li]
    ELSE IF CallOne(vl[i], s, li).result # "false" THEN CallOne(vl[i], s, li)
    ELSE ListLoop(vl, i + 1, s, CallOne(vl[i], s, li).lastIndex)

\* the call matcher(s) of any closure _toMatcher returns
CallMatcher(matcher, s, li) ==
    IF matcher.m = "list" THEN ListLoop(matcher.of, 1, s, li)
    ELSE CallOne(matcher, s, li)

\* _isMatched
isMatched(value, matcher) ==
    IF ~isString(value) THEN FALSE ELSE Matches(matcher, value.segs)

\* _toStringList
toStringList(value) ==
    IF isNullish(value) THEN [err |-> "ok", list |-> <<>>]
    ELSE IF isString(value) THEN [err |-> "ok", list |-> <<value>>]
    ELSE IF value.type = "array"
    THEN IF \E i \in 1 .. Len(value.items) : ~isString(value.items[i])
         THEN [err |-> "ERR_INVALID_ARG_TYPE", list |-> <<>>]
         ELSE [err |-> "ok", list |-> value.items]
    ELSE [err |-> "ERR_INVALID_ARG_TYPE", list |-> <<>>]

\* _toStringOrNull for null, undefined and strings
toStringOrNull(value) ==
    IF isNullish(value) THEN [err |-> "ok", value |-> JsNull]
    ELSE IF isString(value) THEN [err |-> "ok", value |-> value]
    ELSE [err |-> "ERR_INVALID_ARG_TYPE", value |-> JsNull]

\* new FileAccessController(options) for an options object of user code
FileAccessController(options) ==
    LET readable == toMatcher(options.readable, "readable")
        writable == toMatcher(options.writable, "writable")
        listable == toMatcher(options.listable, "listable")
    IN  IF readable.err # "ok" \/ writable.err # "ok" \/ listable.err # "ok"
        THEN [err |-> "ERR_INVALID_ARG_TYPE", controller |-> Null]
        ELSE [err |-> "ok",
              controller |->
                  [kind |-> "controller",
                   readable |-> readable.matcher,
                   writable |-> writable.matcher,
                   listable |-> listable.matcher,
                   context |-> [read |-> <<>>, write |-> <<>>, list |-> <<>>,
                                flags |-> JsNull, path |-> JsNull,
                                mode |-> JsNull]]]

\* a createChild whose constructor compiles the matchers anew, from the
\* options `readable`, `writable` and `listable` a controller does not have
FileAccessController_createChildCompiling(controller, dataValues) ==
    IF dataValues.type # "object"
    THEN [err |-> "ERR_INVALID_ARG_TYPE", child |-> Null]
    ELSE [err |-> "ok",
          child |->
              [FileAccessController(
                   [readable |-> JsUndefined, writable |-> JsUndefined,
                    listable |-> JsUndefined]).controller
                  EXCEPT !.context =
                      [read |-> toStringList(dataValues.read).list,
                       write |-> toStringList(dataValues.write).list,
                       list |-> toStringList(dataValues.list).list,
                       flags |-> toStringOrNull(dataValues.flags).value,
                       path |-> toStringOrNull(dataValues.path).value,
                       mode |-> toStringOrNull(dataValues.mode).value]]]

\* FileAccessController.createChild: new FileAccessController(this) takes the
\* matchers of `controller` as they are
FileAccessController_createChild(controller, dataValues) ==
    IF dataValues.type # "object"
    THEN [err |-> "ERR_INVALID_ARG_TYPE", child |-> Null]
    ELSE LET read == toStringList(dataValues.read)
             write == toStringList(dataValues.write)
             list == toStringList(dataValues.list)
             flags == toStringOrNull(dataValues.flags)
             path == toStringOrNull(dataValues.path)
             mode == toStringOrNull(dataValues.mode)
         IN  IF \E e \in {read.err, write.err, list.err, flags.err, path.err,
                         mode.err} : e # "ok"
             THEN [err |-> "ERR_INVALID_ARG_TYPE", child |-> Null]
             ELSE [err |-> "ok",
                   child |->
                       [controller EXCEPT
                           !.context = [read |-> read.list,
                                        write |-> write.list,
                                        list |-> list.list,
                                        flags |-> flags.value,
                                        path |-> path.value,
                                        mode |-> mode.value]]]

\* String.prototype.indexOf for a single character
indexOf(string, ch) ==
    LET chars == CharsOf(string.segs[1])
    IN  IF \E i \in 1 .. Len(chars) : chars[i] = ch
        THEN (CHOOSE i \in 1 .. Len(chars) :
                 chars[i] = ch /\ \A j \in 1 .. i - 1 : chars[j] # ch) - 1
        ELSE -1

\* one call of _checkMode: the value and the matcher it is checked with
Check(value, matcher) == [value |-> value, matcher |-> matcher]

\* the path the flags and the mode are about
ContextPath(controller, args) ==
    normalizePath(getResourceArg(controller.context.path, args))

\* a flag check that does not ask whether the path is a string
FlagChecksAnyPath(controller, args) ==
    IF isString(controller.context.flags)
    THEN LET given == getResourceArg(controller.context.flags, args)
             flags == IF isNullish(given) THEN Str(<<"r">>) ELSE given
         IN  (IF indexOf(flags, "r") >= 0 \/ indexOf(flags, "+") > 0
              THEN <<Check(normalizePath(
                               getResourceArg(controller.context.path, args)),
                           controller.readable)>>
              ELSE <<>>)
             \o (IF indexOf(flags, "w") >= 0 \/ indexOf(flags, "a") >= 0
                    \/ indexOf(flags, "+") > 0
                 THEN <<Check(normalizePath(
                                  getResourceArg(controller.context.path,
                                                 args)),
                              controller.writable)>>
                 ELSE <<>>)
    ELSE <<>>

\* onContext, the flag check: the calls of _checkMode it makes
FlagChecks(controller, args) ==
    IF isString(controller.context.flags)
       /\ isString(ContextPath(controller, args))
    THEN LET given == getResourceArg(controller.context.flags, args)
             flags == IF isNullish(given) THEN Str(<<"r">>) ELSE given
         IN  (IF indexOf(flags, "r") >= 0 \/ indexOf(flags, "+") > 0
              THEN <<Check(ContextPath(controller, args),
                           controller.readable)>>
              ELSE <<>>)
             \o (IF indexOf(flags, "w") >= 0 \/ indexOf(flags, "a") >= 0
                    \/ indexOf(flags, "+") > 0
                 THEN <<Check(ContextPath(controller, args),
                              controller.writable)>>
                 ELSE <<>>)
    ELSE <<>>

\* _modeNum(_getResourceArg(this[kContext], invoker.args), 0o666): the first
\* argument is the context object, neither number nor string, so the result
\* is the default 0o666
modeNum == 438

\* onContext, the mode check: `mode & 0o444 !== 0` is mode & (0o444 !== 0),
\* that is mode & 1, and so is `mode & 0o222 !== 0`
ModeChecks(controller, args) ==
    IF isString(controller.context.mode)
       /\ isString(ContextPath(controller, args))
    THEN (IF modeNum % 2 # 0
          THEN <<Check(ContextPath(controller, args), controller.readable)>>
          ELSE <<>>)
         \o (IF modeNum % 2 # 0
             THEN <<Check(ContextPath(controller, args), controller.writable)>>
             ELSE <<>>)
    ELSE <<>>

\* onContext, one of the three loops over the declared resources
ResourceChecks(definitions, matcher, args) ==
    [i \in 1 .. Len(definitions) |->
        Check(normalizePath(getResourceArg(definitions[i], args)), matcher)]

\* the calls of _checkMode in the order onContext makes them
AllChecks(controller, args) ==
    FlagChecks(controller, args)
        \o ModeChecks(controller, args)
        \o ResourceChecks(controller.context.list, controller.listable, args)
        \o ResourceChecks(controller.context.read, controller.readable, args)
        \o ResourceChecks(controller.context.write, controller.writable, args)

\* an onContext that leaves out the loop over the write resources
onContextWithoutWrite(controller, args) ==
    LET checks == FlagChecks(controller, args)
                      \o ModeChecks(controller, args)
                      \o ResourceChecks(controller.context.list,
                                        controller.listable, args)
                      \o ResourceChecks(controller.context.read,
                                        controller.readable, args)
        failing == {i \in 1 .. Len(checks) :
                       ~isMatched(checks[i].value, checks[i].matcher)}
    IN  IF failing = {} THEN [err |-> "ok", value |-> JsNull]
        ELSE [err |-> "ERR_FILE_ACCESS_FORBIDDEN",
              value |-> checks[CHOOSE i \in failing :
                                  \A j \in failing : i <= j].value]

\* the calls of _checkMode that throw
Failing(checks) ==
    {i \in 1 .. Len(checks) : ~isMatched(checks[i].value, checks[i].matcher)}

\* the outcome of onContext when the calls `failing` of _checkMode throw:
\* the first of them ends it, with the error _getResourceArg has thrown for
\* its value if it has
FirstFailing(checks, failing) ==
    IF failing = {} THEN [err |-> "ok", value |-> JsNull]
    ELSE LET first == checks[CHOOSE i \in failing : \A j \in failing : i <= j]
         IN  IF first.value.type = "thrown"
             THEN [err |-> first.value.name, value |-> first.value]
             ELSE [err |-> "ERR_FILE_ACCESS_FORBIDDEN", value |-> first.value]

\* FileAccessController.onContext: "ok" when it reaches invoker.invoke(),
\* else the error of the first _checkMode that fails and the value it
\* carries, or the error _getResourceArg has thrown for that value
FileAccessController_onContext(controller, args) ==
    FirstFailing(AllChecks(controller, args),
                 Failing(AllChecks(controller, args)))

(***************************************************************************)
(* ExecutionContextViewImpl                                                 *)
(***************************************************************************)
StackOf(v) == stacks[views[v].stack]

\* pushControllers without the strict check
pushControllersUnchecked(v, controllers, frameId) ==
    StackPush(stacks[views[v].stack], controllers, frameId)

\* ExecutionContextViewImpl.pushControllers
pushControllers(v, controllers, frameId) ==
    IF views[v].strictControllers
       /\ \E k \in DOMAIN controllers :
             getSegmentController(StackOf(v), k) # Null
    THEN [err |-> "ERR_INVALID_OPT_VALUE", stack |-> StackOf(v)]
    ELSE StackPush(StackOf(v), controllers, frameId)

\* ExecutionContextViewImpl.popControllers
popControllers(v, controllerId) == StackPop(StackOf(v), controllerId)

\* a fork whose view keeps using the stack object of its source
ViewForkSharing(v, isStrictControllers, isStrictSegments, newStack) ==
    [stack |-> views[v].stack,
     strictControllers |-> views[v].strictControllers \/ isStrictControllers,
     strictSegments |-> views[v].strictSegments \/ isStrictSegments]

\* ExecutionContextViewImpl.fork: the new view object, its stack object
\* being allocated at index newStack
ViewFork(v, isStrictControllers, isStrictSegments, newStack) ==
    [stack |-> newStack,
     strictControllers |-> views[v].strictControllers \/ isStrictControllers,
     strictSegments |-> views[v].strictSegments \/ isStrictSegments]

LogEntry(ev, seg) == [ev |-> ev, seg |-> seg]

\* variants of the loop of runInContext: `inside` wraps each new controller
\* inside the chain built so far instead of around it; `lenient` skips a
\* segment without controller whatever the view says
RECURSIVE BuildLoopVariant(_, _, _, _, _, _)
BuildLoopVariant(v, segmentOptions, i, acc, inside, lenient) ==
    IF i > Len(segmentOptions) \/ acc.err # "ok" THEN acc
    ELSE LET k == segmentOptions[i].seg
             controller == getSegmentController(StackOf(v), k)
         IN  IF controller # Null
             THEN LET made == createChild(controller, segmentOptions[i].data)
                      log == Append(acc.log, LogEntry("createChild", k))
                      link == [seg |-> k, child |-> made.child]
                  IN  IF made.err # "ok"
                      THEN [acc EXCEPT !.err = made.err, !.log = log]
                      ELSE BuildLoopVariant(v, segmentOptions, i + 1,
                             [err |-> "ok",
                              controllers |->
                                  CopyInto(acc.controllers,
                                           [x \in {k} |-> made.child]),
                              invoker |->
                                  IF inside THEN <<link>> \o acc.invoker
                                  ELSE Append(acc.invoker, link),
                              log |-> log],
                             inside, lenient)
             ELSE IF views[v].strictSegments /\ ~lenient
             THEN [acc EXCEPT !.err = "ERR_INVALID_ARG_VALUE"]
             ELSE BuildLoopVariant(v, segmentOptions, i + 1, acc, inside,
                                   lenient)

BuildLoopInside(v, segmentOptions, i, acc) ==
    BuildLoopVariant(v, segmentOptions, i, acc, TRUE, FALSE)

BuildLoopLenient(v, segmentOptions, i, acc) ==
    BuildLoopVariant(v, segmentOptions, i, acc, FALSE, TRUE)

\* the for-in loop of runInContext over segmentOptions, a sequence of
\* [seg, data] in declaration order: the per-call controllers, the invocation
\* chain (innermost first) and the calls made
RECURSIVE BuildLoop(_, _, _, _)
BuildLoop(v, segmentOptions, i, acc) ==
    IF i > Len(segmentOptions) \/ acc.err # "ok" THEN acc
    ELSE LET k == segmentOptions[i].seg
             controller == getSegmentController(StackOf(v), k)
         IN  IF controller # Null
             THEN LET made == createChild(controller, segmentOptions[i].data)
                      log == Append(acc.log, LogEntry("createChild", k))
                  IN  IF made.err # "ok"
                      THEN [acc EXCEPT !.err = made.err, !.log = log]
                      ELSE BuildLoop(v, segmentOptions, i + 1,
                             [err |-> "ok",
                              controllers |->
                                  CopyInto(acc.controllers,
                                           [x \in {k} |-> made.child]),
                              invoker |->
                                  Append(acc.invoker,
                                         [seg |-> k, child |-> made.child]),
                              log |-> log])
             ELSE IF views[v].strictSegments
             THEN [acc EXCEPT !.err = "ERR_INVALID_ARG_VALUE"]
             ELSE BuildLoop(v, segmentOptions, i + 1, acc)

Build(v, segmentOptions) ==
    BuildLoop(v, segmentOptions, 1,
              [err |-> "ok", controllers |-> <<>>, invoker |-> <<>>,
               log |-> <<>>])

\* a composite that runs its inner invocation before its controller decides
RECURSIVE InvokeInnerFirst(_, _, _)
InvokeInnerFirst(invoker, pos, log) ==
    IF pos < 1
    THEN [target |-> TRUE, err |-> "ok", log |-> Append(log, LogEntry("target", ""))]
    ELSE LET entered == Append(log, LogEntry("onContext", invoker[pos].seg))
             inner == InvokeInnerFirst(invoker, pos - 1, entered)
         IN  IF onContextInvokes(invoker[pos].child)
             THEN inner
             ELSE [target |-> FALSE, err |-> "veto", log |-> inner.log]

\* invoker.invoke(): CompositeContextInvocation.invoke hands the inner
\* invocation to its controller; InnerContextInvocation.invoke applies the
\* wrapped function.  `invoker` lists the composites innermost first.
RECURSIVE Invoke(_, _, _)
Invoke(invoker, pos, log) ==
    IF pos < 1
    THEN [target |-> TRUE, err |-> "ok", log |-> Append(log, LogEntry("target", ""))]
    ELSE LET entered == Append(log, LogEntry("onContext", invoker[pos].seg))
         IN  IF onContextInvokes(invoker[pos].child)
             THEN Invoke(invoker, pos - 1, entered)
             ELSE [target |-> FALSE, err |-> "veto", log |-> entered]

(***************************************************************************)
(* PromiseContext (the tracker)                                             *)
(***************************************************************************)
NoRecord == [id |-> 0, parent |-> NoPromise, active_count |-> 0]

\* PromiseContext::get_for_promise
get_for_promise(promise) ==
    IF promise = NoPromise \/ promise \notin DOMAIN active_promises
    THEN NoRecord
    ELSE active_promises[promise]

\* PromiseContext::get_promise_for_id
get_promise_for_id(promise_id) ==
    IF \E p \in DOMAIN active_promises : active_promises[p].id = promise_id
    THEN active_promises[CHOOSE p \in DOMAIN active_promises :
                            active_promises[p].id = promise_id]
    ELSE NoRecord

\* PromiseContext::get_parent
get_parent(active_promise) ==
    IF active_promise = NoRecord \/ active_promise.parent = NoPromise
    THEN NoRecord
    ELSE get_for_promise(active_promise.parent)

\* a peek_promise that looks at the outermost job
peek_promiseOutermost ==
    IF Len(promise_stack) <= 0 THEN NoRecord
    ELSE get_promise_for_id(promise_stack[1])

\* PromiseContext::peek_promise
peek_promise ==
    IF Len(promise_stack) <= 0 THEN NoRecord
    ELSE get_promise_for_id(promise_stack[Len(promise_stack)])

\* PromiseContext::GetCurrentPromiseId
getCurrentPromiseId == peek_promise.id

\* PromiseContext::GetParentPromiseId, called with an id
getParentPromiseId(promise_id) == get_parent(get_promise_for_id(promise_id)).id

\* an add_match that stores whatever parent is announced
add_matchAnyParent(record, new_parent) ==
    [record EXCEPT !.active_count = @ + 1, !.parent = new_parent]

\* ActivePromise::add_match
add_match(record, new_parent) ==
    [record EXCEPT !.active_count = @ + 1,
                   !.parent = IF new_parent # NoPromise THEN new_parent ELSE @]

\* PromiseContext::add_active_promise: the records and the counter afterwards
add_active_promise(promise, parent) ==
    IF promise \in DOMAIN active_promises
    THEN [records |-> [active_promises EXCEPT ![promise] = add_match(@, parent)],
          count |-> promise_count]
    ELSE [records |->
              [p \in DOMAIN active_promises \cup {promise} |->
                  IF p = promise
                  THEN [id |-> (promise_count + 1) % IdModulus,
                        parent |-> parent, active_count |-> 1]
                  ELSE active_promises[p]],
          count |-> (promise_count + 1) % IdModulus]

\* a remove_active_promise that erases no record
remove_active_promiseKeeping(promise) ==
    IF promise \notin DOMAIN active_promises THEN active_promises
    ELSE [active_promises EXCEPT ![promise].active_count = @ - 1]

\* PromiseContext::remove_active_promise with ActivePromise::remove_match
remove_active_promise(promise) ==
    IF promise \notin DOMAIN active_promises THEN active_promises
    ELSE IF active_promises[promise].active_count - 1 <= 0
    THEN [p \in DOMAIN active_promises \ {promise} |-> active_promises[p]]
    ELSE [active_promises EXCEPT ![promise].active_count = @ - 1]

\* PromiseContext::push_promise
push_promise(promise) ==
    IF get_for_promise(promise) = NoRecord THEN promise_stack
    ELSE Append(promise_stack, get_for_promise(promise).id)

\* a pop_promise that does not compare the top of the stack with the record
pop_promiseAnyTop(promise) ==
    IF Len(promise_stack) <= 0 THEN promise_stack
    ELSE IF get_for_promise(promise) = NoRecord THEN promise_stack
    ELSE SubSeq(promise_stack, 1, Len(promise_stack) - 1)

\* PromiseContext::pop_promise
pop_promise(promise) ==
    IF Len(promise_stack) <= 0 THEN promise_stack
    ELSE IF get_for_promise(promise) = NoRecord THEN promise_stack
    ELSE IF promise_stack[Len(promise_stack)] # get_for_promise(promise).id
    THEN promise_stack
    ELSE SubSeq(promise_stack, 1, Len(promise_stack) - 1)

(***************************************************************************)
(* The registry of views                                                    *)
(***************************************************************************)
\* '#' + the id current when the module was loaded: no job is running then
DEFAULT_THREAD_NAME == 0

\* the walk of _getContextId did not end
Diverges == -1

\* `undefined` where a view or a context name is expected
Undefined == 0

\* _threadIdToName[key], Undefined when the key is absent
NameOf(key) ==
    IF \E i \in 1 .. Len(threadIdToName) : threadIdToName[i].id = key
    THEN threadIdToName[CHOOSE i \in 1 .. Len(threadIdToName) :
                            threadIdToName[i].id = key].name
    ELSE Undefined

\* a lookup that stops at the current id instead of walking to its parents
ContextIdLoopNoWalk(threadId, fuel) == threadId

\* the while loop of _getContextId; a walk of more steps than there are
\* records has met some id twice and never ends
RECURSIVE ContextIdLoop(_, _)
ContextIdLoop(threadId, fuel) ==
    IF NameOf(threadId) # Undefined THEN threadId
    ELSE LET nextId == getParentPromiseId(threadId)
         IN  IF nextId = threadId THEN DEFAULT_THREAD_NAME
             ELSE IF fuel = 0 THEN Diverges
             ELSE ContextIdLoop(nextId, fuel - 1)

\* a walk that starts at the parent of the current promise
getContextIdOfParent ==
    ContextIdLoop(getParentPromiseId(getCurrentPromiseId),
                  Cardinality(DOMAIN active_promises) + 1)

getContextId ==
    ContextIdLoop(getCurrentPromiseId, Cardinality(DOMAIN active_promises) + 1)

getContextName ==
    IF getContextId = Diverges THEN Diverges ELSE NameOf(getContextId)

getCurrentContext ==
    IF getContextName = Diverges THEN Diverges
    ELSE IF getContextName \in DOMAIN threadNameToView
    THEN threadNameToView[getContextName]
    ELSE Undefined

(***************************************************************************)
(* Inputs of the API calls                                                  *)
(***************************************************************************)
\* controller maps user code hands to pushControllers: one segment, both
\* segments (with another controller for s1), and a value that is no controller
ControllerMaps ==
    {[k \in {"s1"} |-> RootController("c1")],
     [k \in {"s1", "s2"} |-> RootController("c2")],
     [k \in {"s2"} |-> NotAController]}

Option(seg, data) == [seg |-> seg, data |-> data]

\* segmentOptions objects: segment names in declaration order, each with data
SegmentOptions ==
    {<<>>,
     <<Option("s1", "allow")>>, <<Option("s1", "deny")>>,
     <<Option("s1", "bad")>>, <<Option("s2", "allow")>>,
     <<Option("s1", "allow"), Option("s2", "allow")>>,
     <<Option("s2", "allow"), Option("s1", "allow")>>,
     <<Option("s1", "allow"), Option("s2", "deny")>>,
     <<Option("s1", "deny"), Option("s2", "allow")>>}

ViewIds == 1 .. Len(views)

RECURSIVE FramesFrom(_)
FramesFrom(i) == IF i > Len(stacks) THEN 0 ELSE Len(stacks[i]) + FramesFrom(i + 1)

\* room for one more frame, with a fresh id
RoomForFrame == FramesFrom(1) < MaxFrames /\ FreeTokens({}) # {}

\* the record of an API call: the view and the arguments it was made with,
\* what it gave (outcome; inner is what invoker.invoke() gave), the calls
\* runInContext made, whether the wrapped function was started, and the
\* stack objects as they were when the call was made
Last(op, v, arg, input, outcome, inner, log, target) ==
    [op |-> op, view |-> v, arg |-> arg, input |-> input, outcome |-> outcome,
     inner |-> inner, log |-> log, target |-> target, before |-> stacks]

SetStack(v, stk) == [stacks EXCEPT ![views[v].stack] = stk]

(***************************************************************************)
(* Initial state: the `promise_context` and `context` modules are loaded    *)
(***************************************************************************)
Init ==
    /\ active_promises = <<>>
    /\ promise_stack = <<>>
    /\ promise_count = 0
    /\ stacks = << <<>> >>
    /\ views = << [stack |-> 1, strictControllers |-> FALSE,
                   strictSegments |-> FALSE] >>
    /\ threadIdToName = << [id |-> DEFAULT_THREAD_NAME, name |-> 1] >>
    /\ threadNameToView = [n \in {1} |-> 1]
    /\ calls = <<>>
    /\ held = {}
    /\ started = {}
    /\ announced = <<>>
    /\ jobs = [open |-> <<>>, credit |-> [p \in Promises |-> 0]]
    /\ wrapped = <<>>
    /\ wrappers = <<>>
    /\ compiled = <<>>
    /\ lastIndex = [id \in 1 .. Len(RegExpObjects) |-> 0]
    /\ last = Last("load", 0, BogusId, <<>>, "ok", "ok", <<>>, FALSE)

(***************************************************************************)
(* Calls user code makes on a view it holds                                 *)
(***************************************************************************)
PushControllers(v, controllers) ==
    /\ RoomForFrame
    /\ LET frameId == create_frame_id({})
           r == pushControllers(v, controllers, frameId)
       IN  /\ stacks' = SetStack(v, r.stack)
           /\ held' = IF r.err = "ok" THEN held \cup {frameId} ELSE held
           /\ last' = Last("pushControllers", v,
                           IF r.err = "ok" THEN frameId ELSE BogusId,
                           controllers, r.err, r.err, <<>>, FALSE)
    /\ UNCHANGED <<matcherVars, wrappers>>
    /\ UNCHANGED <<trackerVars, registryVars, views, calls>>

PopControllers(v, controllerId) ==
    /\ LET r == popControllers(v, controllerId)
       IN  /\ stacks' = SetStack(v, r.stack)
           /\ held' = IF r.err = "ok" THEN held \ {controllerId} ELSE held
           /\ last' = Last("popControllers", v, controllerId, <<>>, r.err,
                           r.err, <<>>, FALSE)
    /\ UNCHANGED <<matcherVars, wrappers>>
    /\ UNCHANGED <<trackerVars, registryVars, views, calls>>

Fork(v, isStrictControllers, isStrictSegments) ==
    /\ Len(views) < MaxViews
    /\ RoomForFrame
    /\ LET newFrameId == create_frame_id({})
       IN  /\ stacks' = Append(stacks, StackFork(StackOf(v), newFrameId))
           /\ views' = Append(views,
                              ViewFork(v, isStrictControllers,
                                       isStrictSegments, Len(stacks) + 1))
           /\ last' = Last("fork", Len(views) + 1, v, <<>>, "ok", "ok", <<>>,
                           FALSE)
    /\ UNCHANGED <<matcherVars, wrappers>>
    /\ UNCHANGED <<trackerVars, registryVars, calls, held>>

\* the finally block of runInContext: the stack and what the call gives
Finally(stk, frameId, inner) ==
    LET popped == StackPop(stk, frameId)
    IN  [stack |-> popped.stack,
         outcome |-> IF popped.err = "ok" THEN inner ELSE popped.err]

\* a push of the per-call frame that goes through pushControllers
runInContextPushStrict(v, controllers, frameId) ==
    pushControllers(v, controllers, frameId)

\* runInContext: this[kStack].push(controllers), on the stack itself
runInContextPush(v, controllers, frameId) ==
    StackPush(StackOf(v), controllers, frameId)

\* runInContext up to the point where it ends or the wrapped function starts
RunInContextOn(v, segmentOptions) ==
    /\ Len(calls) < MaxDepth
    /\ RoomForFrame
    /\ LET built == Build(v, segmentOptions)
           frameId == create_frame_id({})
           pushed == runInContextPush(v, built.controllers, frameId)
           inv == Invoke(built.invoker, Len(built.invoker), built.log)
           fin == Finally(pushed.stack, frameId, inv.err)
       IN  IF built.err # "ok"
           THEN /\ last' = Last("runInContext", v, BogusId, segmentOptions,
                                built.err, built.err, built.log, FALSE)
                /\ UNCHANGED <<stacks, calls>>
           ELSE IF inv.target
           THEN /\ stacks' = SetStack(v, pushed.stack)
                /\ calls' = Append(calls, [view |-> v, frameId |-> frameId,
                                           segmentOptions |-> segmentOptions,
                                           log |-> inv.log])
                /\ last' = Last("target", v, frameId, segmentOptions, "ok",
                                "ok", inv.log, TRUE)
           ELSE /\ stacks' = SetStack(v, fin.stack)
                /\ last' = Last("runInContext", v, frameId, segmentOptions,
                                fin.outcome, inv.err, inv.log, FALSE)
                /\ UNCHANGED calls
    /\ UNCHANGED <<matcherVars, trackerVars, registryVars, views, held>>

\* view.runInContext called by user code
RunInContext(v, segmentOptions) ==
    /\ RunInContextOn(v, segmentOptions)
    /\ UNCHANGED wrappers

\* the wrapped function ends with `result`; runInContext runs its finally
TargetEnds(result) ==
    /\ calls # <<>>
    /\ LET top == calls[Len(calls)]
           fin == Finally(StackOf(top.view), top.frameId, result)
       IN  /\ stacks' = SetStack(top.view, fin.stack)
           /\ last' = Last("runInContext", top.view, top.frameId,
                           top.segmentOptions, fin.outcome, result, top.log,
                           TRUE)
    /\ calls' = SubSeq(calls, 1, Len(calls) - 1)
    /\ UNCHANGED <<matcherVars, wrappers>>
    /\ UNCHANGED <<trackerVars, registryVars, views, held>>

TargetReturns == TargetEnds("ok")

TargetThrows == TargetEnds("UserError")

NextView ==
    \/ \E v \in ViewIds, m \in ControllerMaps : PushControllers(v, m)
    \/ \E v \in ViewIds, id \in held \cup {BogusId} : PopControllers(v, id)
    \/ \E v \in ViewIds, sc \in BOOLEAN, ss \in BOOLEAN : Fork(v, sc, ss)
    \/ \E v \in ViewIds, o \in SegmentOptions : RunInContext(v, o)
    \/ TargetReturns
    \/ TargetThrows

\* user code working on the views it holds; no promise is involved
Spec == Init /\ [][NextView]_vars

(***************************************************************************)
(* Promise hooks: the runtime announces init, resolve, before and after     *)
(* between the synchronous runs of user code.                               *)
(***************************************************************************)
HookDone(type, promise) ==
    last' = Last(type, 0, promise, <<>>, "ok", "ok", <<>>, FALSE)

\* what init announced for each handle, the record of the handle being
\* `record` after this event
Announce(promise, record) ==
    [p \in DOMAIN announced \cup {promise} |->
        IF p = promise THEN [id |-> record.id, parent |-> record.parent]
        ELSE announced[p]]

\* kInit, `limit` bounding the ids handed out
HookInitOn(limit, promise, parent) ==
    /\ IF promise \in DOMAIN active_promises
       THEN active_promises[promise].active_count < MaxActive
       ELSE promise_count < limit
    /\ active_promises' = add_active_promise(promise, parent).records
    /\ promise_count' = add_active_promise(promise, parent).count
    /\ announced' =
           Announce(promise, add_active_promise(promise, parent).records[promise])
    /\ last' = Last("init", 0, promise, <<parent>>, "ok", "ok", <<>>, FALSE)
    /\ UNCHANGED <<matcherVars, wrappers>>
    /\ UNCHANGED <<promise_stack, registryVars, heapVars, calls, held>>

HookInitWithin(limit, promise, parent) ==
    /\ HookInitOn(limit, promise, parent)
    /\ UNCHANGED jobs

HookInit(promise, parent) == HookInitWithin(MaxIds, promise, parent)

HookResolve(promise) ==
    /\ HookDone("resolve", promise)
    /\ UNCHANGED <<matcherVars, wrappers>>
    /\ UNCHANGED <<trackerVars, registryVars, heapVars, calls, held>>

\* kBefore
HookBeforeOn(promise) ==
    /\ calls = <<>>
    /\ Len(promise_stack) < MaxJobs
    /\ promise_stack' = push_promise(promise)
    /\ HookDone("before", promise)
    /\ UNCHANGED <<matcherVars, wrappers>>
    /\ UNCHANGED <<active_promises, promise_count, announced, registryVars,
                   heapVars, calls, held>>

HookBefore(promise) ==
    /\ HookBeforeOn(promise)
    /\ UNCHANGED jobs

\* kAfter
HookAfterOn(promise) ==
    /\ calls = <<>>
    /\ promise_stack' = pop_promise(promise)
    /\ active_promises' = remove_active_promise(promise)
    /\ HookDone("after", promise)
    /\ UNCHANGED <<matcherVars, wrappers>>
    /\ UNCHANGED <<promise_count, announced, registryVars, heapVars, calls,
                   held>>

HookAfter(promise) ==
    /\ HookAfterOn(promise)
    /\ UNCHANGED jobs

(***************************************************************************)
(* Calls user code makes on the registry                                    *)
(***************************************************************************)
\* the name of the default context, drawn when the module is loaded
DefaultName == 1

\* the context names user code can pass: those forkForPromise returned
KnownNames == (DOMAIN threadNameToView \cup {s[2] : s \in started}) \ {DefaultName}

ForkForPromise(isStrictControllers, isStrictSegments) ==
    /\ Len(views) < MaxViews
    /\ RoomForFrame
    /\ getCurrentContext # Diverges
    /\ LET currentView == getCurrentContext
           newName == create_frame_id({})
           newFrameId == create_frame_id({newName})
       IN  IF currentView = Undefined
           THEN /\ last' = Last("forkForPromise", 0, BogusId, <<>>,
                                "TypeError", "TypeError", <<>>, FALSE)
                /\ UNCHANGED <<heapVars, threadNameToView>>
           ELSE /\ stacks' = Append(stacks,
                                    StackFork(StackOf(currentView), newFrameId))
                /\ views' = Append(views,
                                   ViewFork(currentView, isStrictControllers,
                                            isStrictSegments, Len(stacks) + 1))
                /\ threadNameToView' =
                       [n \in DOMAIN threadNameToView \cup {newName} |->
                           IF n = newName THEN Len(views) + 1
                           ELSE threadNameToView[n]]
                /\ last' = Last("forkForPromise", Len(views) + 1, newName,
                                <<>>, "ok", "ok", <<>>, FALSE)
    /\ UNCHANGED <<matcherVars, wrappers>>
    /\ UNCHANGED <<trackerVars, threadIdToName, started, wrapped, calls, held>>

\* startPromise without the check of the current id
startPromiseRebinding(contextName) ==
    IF contextName \notin DOMAIN threadNameToView
    THEN "ERR_INVALID_OPT_VALUE"
    ELSE "ok"

\* startPromise: the failure it throws, or "ok"
startPromise(contextName) ==
    IF contextName \notin DOMAIN threadNameToView
    THEN "ERR_INVALID_OPT_VALUE"
    ELSE IF NameOf(getCurrentPromiseId) # Undefined
    THEN "ERR_INVALID_OPT_VALUE"
    ELSE "ok"

StartPromise(contextName) ==
    /\ IF startPromise(contextName) = "ok"
       THEN /\ threadIdToName' =
                   Append(threadIdToName,
                          [id |-> getCurrentPromiseId, name |-> contextName])
            /\ started' = started \cup
                   {<<getCurrentPromiseId, contextName,
                      threadNameToView[contextName]>>}
       ELSE UNCHANGED <<threadIdToName, started>>
    /\ last' = Last("startPromise", 0, contextName, <<>>,
                    startPromise(contextName), startPromise(contextName),
                    <<>>, FALSE)
    /\ UNCHANGED <<matcherVars, wrappers>>
    /\ UNCHANGED <<trackerVars, threadNameToView, wrapped, heapVars, calls,
                   held>>

\* every entry of _threadIdToName, whatever name it is bound to
BoundToAny(contextName) == 1 .. Len(threadIdToName)

\* the entries of _threadIdToName bound to contextName, in for-in order
BoundTo(contextName) ==
    {i \in 1 .. Len(threadIdToName) : threadIdToName[i].name = contextName}

\* endPromise: the first entry bound to the name goes, and the view with it;
\* the two maps afterwards and what the call returns
endPromise(contextName) ==
    IF BoundTo(contextName) # {}
    THEN LET k == CHOOSE i \in BoundTo(contextName) :
                     \A j \in BoundTo(contextName) : i <= j
         IN  [idToName |-> SubSeq(threadIdToName, 1, k - 1)
                            \o SubSeq(threadIdToName, k + 1, Len(threadIdToName)),
              nameToView |-> [n \in DOMAIN threadNameToView \ {contextName} |->
                                 threadNameToView[n]],
              result |-> "true"]
    ELSE [idToName |-> threadIdToName, nameToView |-> threadNameToView,
          result |-> "false"]

EndPromise(contextName) ==
    /\ threadIdToName' = endPromise(contextName).idToName
    /\ threadNameToView' = endPromise(contextName).nameToView
    /\ last' = Last("endPromise", 0, contextName, <<>>,
                    endPromise(contextName).result,
                    endPromise(contextName).result, <<>>, FALSE)
    /\ UNCHANGED <<matcherVars, wrappers>>
    /\ UNCHANGED <<trackerVars, started, wrapped, heapVars, calls, held>>

NextRegistry ==
    \/ \E p \in Promises : \E parent \in (Promises \cup {NoPromise}) \ {p} :
          HookInit(p, parent)
    \/ \E p \in Promises : HookResolve(p)
    \/ \E p \in Promises : HookBefore(p)
    \/ \E p \in Promises : HookAfter(p)
    \/ \E sc \in BOOLEAN, ss \in BOOLEAN : ForkForPromise(sc, ss)
    \/ \E n \in KnownNames \cup {BogusId} : StartPromise(n)
    \/ \E n \in KnownNames \cup {BogusId} : EndPromise(n)

\* jobs of promises, and user code that forks, starts and ends contexts
SpecRegistry == Init /\ [][NextRegistry]_vars

(***************************************************************************)
(* The tracker alone, fed with hook events in any order; the id counter is  *)
(* free to run through all its values.                                      *)
(***************************************************************************)
TrackerInit(promise, parent) == HookInitWithin(IdModulus, promise, parent)

\* a promise the hooks never announce: it appears as a parent only
UntrackedPromise == NumPromises + 1

NextTracker ==
    \/ \E p \in Promises :
          \E parent \in (Promises \cup {NoPromise, UntrackedPromise}) \ {p} :
              TrackerInit(p, parent)
    \/ \E p \in Promises : HookResolve(p)
    \/ \E p \in Promises : HookBefore(p)
    \/ \E p \in Promises : HookAfter(p)

SpecTracker == Init /\ [][NextTracker]_vars

(***************************************************************************)
(* The tracker fed by a runtime that nests its jobs: a job is started for a  *)
(* promise only as often as the promise was announced, and the job that      *)
(* ends is the innermost open one.                                           *)
(***************************************************************************)
JobInit(promise, parent) ==
    /\ HookInitOn(IdModulus, promise, parent)
    /\ jobs' = [jobs EXCEPT !.credit[promise] = @ + 1]

JobBefore(promise) ==
    /\ jobs.credit[promise] > 0
    /\ HookBeforeOn(promise)
    /\ jobs' = [open |-> Append(jobs.open, promise),
                credit |-> [jobs.credit EXCEPT ![promise] = @ - 1]]

JobAfter(promise) ==
    /\ jobs.open # <<>>
    /\ jobs.open[Len(jobs.open)] = promise
    /\ HookAfterOn(promise)
    /\ jobs' = [jobs EXCEPT !.open = SubSeq(@, 1, Len(@) - 1)]

NextJobs ==
    \/ \E p \in Promises : \E parent \in (Promises \cup {NoPromise}) \ {p} :
          JobInit(p, parent)
    \/ \E p \in Promises : HookResolve(p)
    \/ \E p \in Promises : JobBefore(p)
    \/ \E p \in Promises : JobAfter(p)

SpecJobs == Init /\ [][NextJobs]_vars

(***************************************************************************)
(* wrapPromise.  The call forks a context and builds its promises; the      *)
(* callbacks it registers run once the promise of the caller has settled.   *)
(***************************************************************************)
\* what user code hands to wrapPromise: a value without `then`, a promise
\* with `finally`, a promise without
PromiseKinds == {"notPromise", "withFinally", "withoutFinally"}

\* wrapPromise up to its return.  With `finally` the function that calls
\* startPromise is the value Promise.resolve is given, which nothing calls;
\* without, the executor of the new promise calls startPromise at once and a
\* failure of startPromise rejects that promise.
WrapPromise(kind, isStrictControllers, isStrictSegments) ==
    /\ Len(views) < MaxViews
    /\ RoomForFrame
    /\ getCurrentContext # Diverges
    /\ LET currentView == getCurrentContext
           contextName == create_frame_id({})
           newFrameId == create_frame_id({contextName})
           starts == kind = "withoutFinally"
                         /\ NameOf(getCurrentPromiseId) = Undefined
       IN  IF kind = "notPromise"
           THEN /\ last' = Last("wrapPromise", 0, BogusId, <<>>,
                                "ERR_INVALID_ARG_VALUE", "ERR_INVALID_ARG_VALUE",
                                <<>>, FALSE)
                /\ UNCHANGED <<heapVars, registryVars>>
           ELSE IF currentView = Undefined
           THEN /\ last' = Last("wrapPromise", 0, BogusId, <<>>,
                                "TypeError", "TypeError", <<>>, FALSE)
                /\ UNCHANGED <<heapVars, registryVars>>
           ELSE /\ stacks' = Append(stacks,
                                    StackFork(StackOf(currentView), newFrameId))
                /\ views' = Append(views,
                                   ViewFork(currentView, isStrictControllers,
                                            isStrictSegments, Len(stacks) + 1))
                /\ threadNameToView' =
                       [n \in DOMAIN threadNameToView \cup {contextName} |->
                           IF n = contextName THEN Len(views) + 1
                           ELSE threadNameToView[n]]
                /\ threadIdToName' =
                       IF starts
                       THEN Append(threadIdToName,
                                   [id |-> getCurrentPromiseId,
                                    name |-> contextName])
                       ELSE threadIdToName
                /\ started' =
                       IF starts
                       THEN started \cup {<<getCurrentPromiseId, contextName,
                                            Len(views) + 1>>}
                       ELSE started
                /\ wrapped' = Append(wrapped,
                                     [name |-> contextName,
                                      finally |-> kind = "withFinally",
                                      phase |-> "pending"])
                /\ last' = Last("wrapPromise", Len(views) + 1, contextName,
                                <<>>, "ok", "ok", <<>>, FALSE)
    /\ UNCHANGED <<matcherVars, wrappers>>
    /\ UNCHANGED <<trackerVars, calls, held>>

\* the promise of the caller has settled (`how`) and the callbacks of
\* wrapPromise have run: the `finally` callback calls endPromise(contextName);
\* `fin` hands a function to Promise.resolve, which nothing calls
WrapSettles(k, how) ==
    /\ wrapped[k].phase = "pending"
    /\ wrapped' = [wrapped EXCEPT ![k].phase = how]
    /\ IF wrapped[k].finally
       THEN /\ threadIdToName' = endPromise(wrapped[k].name).idToName
            /\ threadNameToView' = endPromise(wrapped[k].name).nameToView
       ELSE UNCHANGED <<threadIdToName, threadNameToView>>
    /\ last' = Last("wrapSettles", 0, wrapped[k].name, <<>>, how, how, <<>>,
                    FALSE)
    /\ UNCHANGED <<matcherVars, wrappers>>
    /\ UNCHANGED <<trackerVars, started, heapVars, calls, held>>

NextWrap ==
    \/ \E p \in Promises : \E parent \in (Promises \cup {NoPromise}) \ {p} :
          HookInit(p, parent)
    \/ \E p \in Promises : HookResolve(p)
    \/ \E p \in Promises : HookBefore(p)
    \/ \E p \in Promises : HookAfter(p)
    \/ \E kind \in PromiseKinds, sc \in BOOLEAN, ss \in BOOLEAN :
          WrapPromise(kind, sc, ss)
    \/ \E k \in 1 .. Len(wrapped), how \in {"fulfilled", "rejected"} :
          WrapSettles(k, how)

\* jobs of promises, and user code that wraps promises
SpecWrap == Init /\ [][NextWrap]_vars

(***************************************************************************)
(* wrapFunction: user code wraps a function once and calls the result from  *)
(* the jobs of promises of several contexts.                                *)
(***************************************************************************)
\* the segmentOptions user code wraps functions with
WrapperOptions == {<<>>, <<Option("s1", "allow")>>}

\* wrapFunction: the closure holds segmentOptions and func; madeOn and ranOn
\* are history, the view that was current when the function was wrapped and
\* the views the function ran on
WrapFunction(segmentOptions) ==
    /\ calls = <<>>
    /\ Len(wrappers) < MaxWrappers
    /\ getCurrentContext # Diverges
    /\ wrappers' = Append(wrappers, [segmentOptions |-> segmentOptions,
                                     madeOn |-> getCurrentContext,
                                     ranOn |-> {}])
    /\ last' = Last("wrapFunction", 0, BogusId, segmentOptions, "ok", "ok",
                    <<>>, FALSE)
    /\ UNCHANGED <<matcherVars, trackerVars, registryVars, heapVars, calls,
                   held>>

\* a wrapper that keeps the view of the time it was made
viewAtWrapTime(k) == wrappers[k].madeOn

\* const view = getCurrentContext() in the function wrapFunction returns
viewOfCall(k) == getCurrentContext

\* a call of the function wrapFunction returned, up to the point where it
\* ends or the wrapped function starts
CallWrapped(k) ==
    /\ getCurrentContext # Diverges
    /\ IF viewOfCall(k) = Undefined
       THEN /\ Len(calls) < MaxDepth
            /\ last' = Last("runInContext", 0, BogusId,
                            wrappers[k].segmentOptions, "TypeError",
                            "TypeError", <<>>, FALSE)
            /\ UNCHANGED <<matcherVars, trackerVars, registryVars, heapVars,
                           calls, held, wrappers>>
       ELSE /\ RunInContextOn(viewOfCall(k), wrappers[k].segmentOptions)
            /\ wrappers' = [wrappers EXCEPT
                                ![k].ranOn = @ \cup {viewOfCall(k)}]

NextWrapFunction ==
    \/ \E p \in Promises : \E parent \in (Promises \cup {NoPromise}) \ {p} :
          HookInit(p, parent)
    \/ \E p \in Promises : HookBefore(p)
    \/ \E p \in Promises : HookAfter(p)
    \/ ForkForPromise(FALSE, FALSE)
    \/ \E n \in KnownNames : StartPromise(n)
    \/ \E o \in WrapperOptions : WrapFunction(o)
    \/ \E k \in 1 .. Len(wrappers) : CallWrapped(k)
    \/ TargetReturns

\* jobs of promises, and user code that starts contexts and calls wrapped
\* functions in them
SpecWrapFunction == Init /\ [][NextWrapFunction]_vars

(***************************************************************************)
(* Matchers: user code compiles patterns with _toMatcher and calls the      *)
(* matchers it got.                                                         *)
(***************************************************************************)
\* the patterns "/a/", "/", "/a/f", "/a/*", "/a/f*", "/a/?", "/a/*/",
\* "/**/f", "re:/a/.", arrays of them, the RegExp objects, and two values
\* that _toMatcher refuses
MatcherPatterns ==
    {Str(<<"", "a", "">>), Str(<<"", "">>), Str(<<"", "a", "f">>),
     Str(<<"", "a", "*">>), Str(<<"", "a", "f*">>), Str(<<"", "a", "?">>),
     Str(<<"", "a", "*", "">>), Str(<<"", "**", "f">>),
     Str(<<"re:", "a", ".">>),
     Arr(<<Str(<<"", "b", "f">>), Str(<<"", "a", "*">>)>>),
     Arr(<<Str(<<"re:", "a", ".">>), Str(<<"", "a", "">>)>>),
     Arr(<<Str(<<"", "b", "f">>), Re(1)>>),
     Re(1), Re(2),
     Arr(<<JsNull>>), Str(<<"">>)}

\* the strings "/a/f", "/a", "/a/", "/a/f/", "/a/g/f", "/a/fg", "/b/f",
\* "/a//f", "a/f", "/"
MatcherInputs ==
    {<<"", "a", "f">>, <<"", "a">>, <<"", "a", "">>, <<"", "a", "f", "">>,
     <<"", "a", "g", "f">>, <<"", "a", "fg">>, <<"", "b", "f">>,
     <<"", "a", "", "f">>, <<"a", "f">>, <<"", "">>}

\* _toMatcher(pattern): user code keeps the matcher it returned
Compile(pattern) ==
    /\ Len(compiled) < MaxMatchers
    /\ compiled' =
           IF toMatcher(pattern, "readable").err = "ok"
           THEN Append(compiled,
                       [pattern |-> pattern,
                        matcher |-> toMatcher(pattern, "readable").matcher,
                        calls |-> <<>>])
           ELSE compiled
    /\ last' = Last("toMatcher", 0, BogusId, pattern,
                    toMatcher(pattern, "readable").err,
                    toMatcher(pattern, "readable").err, <<>>, FALSE)
    /\ UNCHANGED <<lastIndex, wrappers, trackerVars, registryVars, heapVars,
                   calls, held>>

\* matcher(s) for a matcher user code holds; `calls` is the history of the
\* calls made on it
CallCompiled(k, s) ==
    /\ Len(compiled[k].calls) < MaxMatcherCalls
    /\ compiled' =
           [compiled EXCEPT
               ![k].calls =
                   Append(@, [input |-> s,
                              result |-> CallMatcher(compiled[k].matcher, s,
                                                     lastIndex).result])]
    /\ lastIndex' = CallMatcher(compiled[k].matcher, s, lastIndex).lastIndex
    /\ last' = Last("matcher", 0, k, s,
                    CallMatcher(compiled[k].matcher, s, lastIndex).result,
                    CallMatcher(compiled[k].matcher, s, lastIndex).result,
                    <<>>, FALSE)
    /\ UNCHANGED <<wrappers, trackerVars, registryVars, heapVars, calls, held>>

NextMatcher ==
    \/ \E pattern \in MatcherPatterns : Compile(pattern)
    \/ \E k \in 1 .. Len(compiled), s \in MatcherInputs : CallCompiled(k, s)

\* user code that compiles patterns and calls the matchers
SpecMatcher == Init /\ [][NextMatcher]_vars

(***************************************************************************)
(* _getResourceArg applied to resource definitions and argument lists       *)
(***************************************************************************)
\* resource definitions: {N}, {N.key}, strings of another form, other values
ResourceDefs ==
    {Str(<<"{0}">>), Str(<<"{1}">>), Str(<<"{2}">>), Str(<<"{0.p}">>),
     Str(<<"{1.p}">>), Str(<<"{0.0}">>), Str(<<"", "a", "f">>),
     Str(<<"{0}", "a">>), Str(<<"">>), JsNull, JsUndefined,
     Arr(<<Str(<<"{0}">>)>>)}

\* the values of arguments: absent values, primitives and objects
ArgValues ==
    {JsNull, JsUndefined, Str(<<"", "a", "f">>), Num(3),
     Rec([p |-> Str(<<"", "a", "f">>)]), Rec([q |-> Num(3)]),
     Arr(<<Str(<<"", "b", "f">>)>>), Arr(<<>>)}

ArgLists ==
    {<<>>} \cup {<<a>> : a \in ArgValues}
           \cup {<<a, b>> : a \in {JsNull, Num(3)}, b \in ArgValues}

\* one call of _getResourceArg; what it returned is kept in `log`
GetResourceArg(resourceDef, args) ==
    /\ last' = Last("getResourceArg", 0, BogusId,
                    [resourceDef |-> resourceDef, args |-> args],
                    IF getResourceArg(resourceDef, args).type = "thrown"
                    THEN getResourceArg(resourceDef, args).name
                    ELSE "ok",
                    "ok", <<getResourceArg(resourceDef, args)>>, FALSE)
    /\ UNCHANGED <<matcherVars, wrappers, trackerVars, registryVars, heapVars,
                   calls, held>>

NextResourceArg ==
    \E resourceDef \in ResourceDefs, args \in ArgLists :
        GetResourceArg(resourceDef, args)

SpecResourceArg == Init /\ [][NextResourceArg]_vars

(***************************************************************************)
(* File access: user code installs FileAccessControllers under the segment  *)
(* "fileaccess" of the current context and calls functions wrapped with     *)
(* wrapFunction({fileaccess: dataValues}, fn).                              *)
(***************************************************************************)
FILE_ACCESS == "fileaccess"

\* the strings "/a/", "/a/f", "/a/g/f", "/b/f" and "/b/../a/f"
DirA == Str(<<"", "a", "">>)
FileAF == Str(<<"", "a", "f">>)
FileAGF == Str(<<"", "a", "g", "f">>)
FileBF == Str(<<"", "b", "f">>)
FileBUpAF == Str(<<"", "b", "..", "a", "f">>)

FileOptionsOf(readable, writable, listable) ==
    [readable |-> readable, writable |-> writable, listable |-> listable]

\* options objects handed to addFileAccessController; the last one is
\* refused by the constructor
FileOptions ==
    {FileOptionsOf(DirA, JsUndefined, JsNull),
     FileOptionsOf(Arr(<<>>), FileAF, DirA),
     FileOptionsOf(Arr(<<FileBF, DirA>>), Arr(<<>>), JsUndefined),
     FileOptionsOf(FileAF, DirA, Arr(<<FileAF>>)),
     FileOptionsOf(Arr(<<JsNull>>), JsNull, JsNull)}

Obj(read, write, list, flags, path) ==
    [type |-> "object", read |-> read, write |-> write, list |-> list,
     flags |-> flags, path |-> path, mode |-> JsUndefined]

ArgDef(n) == Str(<<IF n = 0 THEN "{0}" ELSE IF n = 1 THEN "{1}" ELSE "{2}">>)

\* per-call data that declares the path and the mode of the call
ObjMode(path, mode) ==
    [Obj(JsUndefined, JsUndefined, JsUndefined, JsUndefined, path)
        EXCEPT !.mode = mode]

\* the per-call data of wrapped functions; the last two are refused by
\* createChild
FileDataValues ==
    {Obj(JsUndefined, JsUndefined, JsUndefined, JsUndefined, JsUndefined),
     Obj(ArgDef(0), JsUndefined, JsUndefined, JsUndefined, JsUndefined),
     Obj(JsUndefined, ArgDef(0), JsUndefined, JsUndefined, JsUndefined),
     Obj(JsUndefined, JsUndefined, ArgDef(0), JsUndefined, JsUndefined),
     Obj(ArgDef(0), ArgDef(0), JsUndefined, JsUndefined, JsUndefined),
     Obj(Arr(<<ArgDef(0), FileBF>>), JsNull, ArgDef(0), JsUndefined,
         JsUndefined),
     Obj(JsUndefined, JsUndefined, JsUndefined, ArgDef(1), ArgDef(0)),
     Obj(ArgDef(0), JsUndefined, JsUndefined, ArgDef(1), ArgDef(0)),
     ObjMode(ArgDef(0), ArgDef(1)),
     Obj(Arr(<<JsNull>>), JsUndefined, JsUndefined, JsUndefined, JsUndefined),
     ArgDef(0)}

\* the arguments of the wrapped call: a path, or a path and flags, or a
\* path and a mode
FileArgs ==
    {<<>>, <<JsNull>>, <<FileAF>>, <<FileAGF>>, <<FileBF>>, <<FileBUpAF>>,
     <<FileAF, Str(<<"r">>)>>, <<FileAF, Str(<<"w">>)>>,
     <<FileAF, Str(<<"r+">>)>>, <<FileBF, Str(<<"a">>)>>,
     <<FileAF, Str(<<"+">>)>>, <<FileAF, Str(<<"222">>)>>,
     <<FileAF, JsUndefined>>}

\* getCurrentContext().pushControllers(addFileAccessController(options))
FilePush(options) ==
    /\ calls = <<>>
    /\ RoomForFrame
    /\ LET made == FileAccessController(options)
           frameId == create_frame_id({})
           r == pushControllers(1, [k \in {FILE_ACCESS} |-> made.controller],
                                frameId)
       IN  IF made.err # "ok"
           THEN /\ last' = Last("pushControllers", 1, BogusId, options,
                                made.err, made.err, <<>>, FALSE)
                /\ UNCHANGED <<stacks, held>>
           ELSE /\ stacks' = SetStack(1, r.stack)
                /\ held' = IF r.err = "ok" THEN held \cup {frameId} ELSE held
                /\ last' = Last("pushControllers", 1,
                                IF r.err = "ok" THEN frameId ELSE BogusId,
                                options, r.err, r.err, <<>>, FALSE)
    /\ UNCHANGED <<matcherVars, wrappers>>
    /\ UNCHANGED <<trackerVars, registryVars, views, calls>>

\* getCurrentContext().popControllers(controllerId)
FilePop(controllerId) ==
    /\ calls = <<>>
    /\ PopControllers(1, controllerId)

\* the call of a wrapped function on the current context, up to the point
\* where it ends or the wrapped function starts
FileAccessCallWithin(depth, dataValues, args) ==
    /\ Len(calls) < depth
    /\ RoomForFrame
    /\ LET input == [data |-> dataValues, args |-> args]
           controller == getSegmentController(StackOf(1), FILE_ACCESS)
           made == FileAccessController_createChild(controller, dataValues)
           frameId == create_frame_id({})
           children == IF controller = Null THEN <<>>
                       ELSE [k \in {FILE_ACCESS} |-> made.child]
           pushed == StackPush(StackOf(1), children, frameId)
           verdict == IF controller = Null
                      THEN [err |-> "ok", value |-> JsNull]
                      ELSE FileAccessController_onContext(made.child, args)
           log == IF controller = Null THEN <<>>
                  ELSE <<LogEntry("createChild", FILE_ACCESS),
                         LogEntry("onContext", FILE_ACCESS)>>
           fin == Finally(pushed.stack, frameId, verdict.err)
       IN  IF controller # Null /\ made.err # "ok"
           THEN /\ last' = Last("runInContext", 1, BogusId, input, made.err,
                                made.err,
                                <<LogEntry("createChild", FILE_ACCESS)>>,
                                FALSE)
                /\ UNCHANGED <<stacks, calls>>
           ELSE IF verdict.err = "ok"
           THEN /\ stacks' = SetStack(1, pushed.stack)
                /\ calls' = Append(calls,
                                   [view |-> 1, frameId |-> frameId,
                                    segmentOptions |-> input,
                                    log |-> Append(log, LogEntry("target", ""))])
                /\ last' = Last("target", 1, frameId, input, "ok", "ok",
                                Append(log, LogEntry("target", "")), TRUE)
           ELSE /\ stacks' = SetStack(1, fin.stack)
                /\ last' = Last("runInContext", 1, frameId, input,
                                fin.outcome, verdict.err,
                                Append(log, [ev |-> "throw",
                                             seg |-> FILE_ACCESS,
                                             value |-> verdict.value]),
                                FALSE)
                /\ UNCHANGED calls
    /\ UNCHANGED <<matcherVars, wrappers>>
    /\ UNCHANGED <<trackerVars, registryVars, views, held>>

FileAccessCall(dataValues, args) ==
    FileAccessCallWithin(MaxDepth, dataValues, args)

NextFileAccess ==
    \/ \E o \in FileOptions : FilePush(o)
    \/ \E id \in held \cup {BogusId} : FilePop(id)
    \/ \E d \in FileDataValues, a \in FileArgs : FileAccessCall(d, a)
    \/ TargetReturns
    \/ TargetThrows

\* user code that guards file access in the current context
SpecFileAccess == Init /\ [][NextFileAccess]_vars

(***************************************************************************)
(* Nested file access: a wrapped function calls wrapped functions            *)
(***************************************************************************)
NestedOptions ==
    {FileOptionsOf(DirA, JsUndefined, JsNull),
     FileOptionsOf(Arr(<<FileBF, DirA>>), FileAF, DirA)}

NestedDataValues ==
    {Obj(JsUndefined, JsUndefined, JsUndefined, JsUndefined, JsUndefined),
     Obj(ArgDef(0), JsUndefined, JsUndefined, JsUndefined, JsUndefined),
     Obj(JsUndefined, ArgDef(0), JsUndefined, JsUndefined, JsUndefined),
     Obj(JsUndefined, JsUndefined, JsUndefined, ArgDef(1), ArgDef(0))}

NestedArgs == {<<FileAF>>, <<FileAGF>>, <<FileBF>>, <<FileAF, Str(<<"w">>)>>}

NestedCall(dataValues, args) ==
    FileAccessCallWithin(MaxNesting, dataValues, args)

NextNestedFileAccess ==
    \/ \E o \in NestedOptions : FilePush(o)
    \/ \E id \in held : FilePop(id)
    \/ \E d \in NestedDataValues, a \in NestedArgs : NestedCall(d, a)
    \/ TargetReturns
    \/ TargetThrows

\* user code whose guarded functions call guarded functions
SpecNestedFileAccess == Init /\ [][NextNestedFileAccess]_vars

(***************************************************************************)
(* Properties of the controller stack and of the view                       *)
(***************************************************************************)
\* the stack of the view the last call was made on, as it was before the call
StackBefore == last.before[views[last.view].stack]

\* that stack with its top frame removed
AllButTop(stk) == SubSeq(stk, 1, Len(stk) - 1)

IsTop(stk, frameId) == Len(stk) > 0 /\ stk[Len(stk)].id = frameId

StacksWith(v, stk) == [last.before EXCEPT ![views[v].stack] = stk]

\* C1: popControllers(id) with an id that pushControllers returned succeeds
\* exactly when the frame bearing that id is the top frame of the view's
\* stack, and a successful pop removes that frame and nothing else.
C1_PopSucceedsIffTop ==
    (last.op = "popControllers" /\ last.arg # BogusId) =>
        /\ (last.outcome = "ok") <=> IsTop(StackBefore, last.arg)
        /\ last.outcome = "ok" =>
               stacks = StacksWith(last.view, AllButTop(StackBefore))
        /\ last.outcome # "ok" => stacks = last.before

\* a pop that succeeded on a stack of two frames, and took the upper one
C1_Witness ==
    /\ last.op = "popControllers"
    /\ last.arg # BogusId
    /\ last.outcome = "ok"
    /\ Len(StackBefore) = 2
    /\ StackOf(last.view) = <<StackBefore[1]>>

\* C2: popControllers fails with ERR_INDEX_OUT_OF_RANGE on an empty stack and
\* with ERR_INVALID_ARG_VALUE when the id of the top frame differs from the
\* argument; a failed pop leaves the stack as it was, and a pop with the id of
\* the top frame then succeeds.
C2_PopFailures ==
    last.op = "popControllers" =>
        /\ isEmpty(StackBefore) => last.outcome = "ERR_INDEX_OUT_OF_RANGE"
        /\ (~isEmpty(StackBefore) /\ ~IsTop(StackBefore, last.arg)) =>
               /\ last.outcome = "ERR_INVALID_ARG_VALUE"
               /\ LET top == StackOf(last.view)[Len(StackOf(last.view))]
                      again == popControllers(last.view, top.id)
                  IN  again.err = "ok" /\ again.stack = AllButTop(StackBefore)
        /\ last.outcome # "ok" => stacks = last.before

\* a pop with an id pushControllers returned that is refused because another
\* frame is on top
C2_Witness ==
    /\ last.op = "popControllers"
    /\ last.arg \in held
    /\ last.outcome = "ERR_INVALID_ARG_VALUE"
    /\ stacks = last.before

\* the pop of the default view right after startup
C2_WitnessEmpty ==
    /\ last.op = "popControllers"
    /\ last.before = << <<>> >>
    /\ last.outcome = "ERR_INDEX_OUT_OF_RANGE"

\* C3 (as claimed): whatever the wrapped function and the controllers do,
\* once runInContext has ended the frame it pushed is no longer on the stack
\* of the view, and what invoker.invoke() gave is what runInContext gives.
C3_FramePoppedAlways ==
    (last.op = "runInContext" /\ last.arg # BogusId) =>
        /\ last.arg \notin FrameIds(StackOf(last.view))
        /\ last.outcome = last.inner

\* the options of the last runInContext whose segment had a controller when
\* the call was made, in declaration order
RegisteredOptions ==
    SelectSeq(last.input,
              LAMBDA o : getSegmentController(StackBefore, o.seg) # Null)

CreateCalls(options) ==
    [i \in 1 .. Len(options) |-> LogEntry("createChild", options[i].seg)]

\* the onContext calls of the first m controllers, outermost first
OnContextCalls(options, m) ==
    [j \in 1 .. m |->
        LogEntry("onContext", options[Len(options) + 1 - j].seg)]

IsRun == last.op \in {"runInContext", "target"}

\* C4: when the onContext of a controller of the chain throws without calling
\* invoke(), the wrapped function is not run, no controller further inside
\* the chain (declared earlier) has its onContext called, and the failure is
\* what the caller of runInContext gets.
C4_VetoStopsChain ==
    (last.op = "runInContext" /\ last.inner = "veto") =>
        /\ ~last.target
        /\ \A i \in 1 .. Len(last.log) : last.log[i].ev # "target"
        /\ last.outcome = "veto"
        /\ \E m \in 1 .. Len(RegisteredOptions) :
              /\ RegisteredOptions[Len(RegisteredOptions) + 1 - m].data = "deny"
              /\ last.log = CreateCalls(RegisteredOptions)
                                \o OnContextCalls(RegisteredOptions, m)

\* the outer of two controllers vetoes: the inner one is never entered
C4_Witness ==
    /\ last.op = "runInContext"
    /\ last.inner = "veto"
    /\ Len(RegisteredOptions) = 2
    /\ Len(last.log) = 3
    /\ last.log[3] = LogEntry("onContext", last.input[2].seg)

\* C5: createChild is called for the segments in declaration order before
\* any onContext; the onContext calls are made in reverse declaration order,
\* and the wrapped function starts after every onContext has been entered.
C5_OutermostFirst ==
    last.op = "target" =>
        last.log = CreateCalls(RegisteredOptions)
                       \o OnContextCalls(RegisteredOptions,
                                         Len(RegisteredOptions))
                       \o <<LogEntry("target", "")>>

\* a call through two controllers that reaches the wrapped function
C5_Witness ==
    /\ last.op = "target"
    /\ Len(RegisteredOptions) = 2
    /\ last.log[3] = LogEntry("onContext", last.input[2].seg)
    /\ last.log[4] = LogEntry("onContext", last.input[1].seg)
    /\ last.log[5] = LogEntry("target", "")

HasUnregistered == Len(RegisteredOptions) < Len(last.input)

C6_WitnessSkipped ==
    /\ last.op = "target"
    /\ ~views[last.view].strictSegments
    /\ Len(RegisteredOptions) = 1
    /\ Len(last.input) = 2

AlreadySet ==
    \E k \in DOMAIN last.input : getSegmentController(StackBefore, k) # Null

C7_WitnessShadow ==
    /\ last.op = "pushControllers"
    /\ ~views[last.view].strictControllers
    /\ last.outcome = "ok"
    /\ \E k \in DOMAIN last.input :
          /\ getSegmentController(StackBefore, k) # Null
          /\ getSegmentController(StackBefore, k) # last.input[k]

\* C39: the check of strict controllers is made by pushControllers only.  In
\* a view with strict controllers runInContext for segments that have a
\* controller never fails with ERR_INVALID_OPT_VALUE; it pushes the frame of
\* the per-call children under the names of those segments, and while the
\* wrapped function runs the lookup of such a segment gives the per-call
\* child.
C39_StrictOnlyOnPush ==
    (IsRun /\ views[last.view].strictControllers
           /\ Len(RegisteredOptions) > 0) =>
        /\ last.outcome # "ERR_INVALID_OPT_VALUE"
        /\ last.op = "target" =>
               /\ IsTop(StackOf(last.view), last.arg)
               /\ \A j \in 1 .. Len(RegisteredOptions) :
                      LET o == RegisteredOptions[j]
                          top == StackOf(last.view)[Len(StackOf(last.view))]
                          child == createChild(
                                       getSegmentController(StackBefore, o.seg),
                                       o.data).child
                      IN  /\ o.seg \in DOMAIN top.segs
                          /\ top.segs[o.seg] = child
                          /\ getSegmentController(StackOf(last.view), o.seg)
                                 = child

\* the wrapped function runs in a view with strict controllers, under the
\* per-call child of a controller the view had already
C39_Witness ==
    /\ last.op = "target"
    /\ views[last.view].strictControllers
    /\ Len(RegisteredOptions) > 0
    /\ getSegmentController(StackOf(last.view), RegisteredOptions[1].seg)
           # getSegmentController(StackBefore, RegisteredOptions[1].seg)

\* the views made by fork: every view but the default one
ForkedViews(vs) == 2 .. Len(vs)

\* C40: a view made by fork always holds at least one frame: its first frame
\* is the collapsed frame of the fork, made even from an empty stack, whose
\* id no caller holds; pushControllers, popControllers with ids got from
\* pushControllers and runInContext leave that frame, with the controllers
\* it inherited, where it is, and popControllers on such a view never fails
\* with ERR_INDEX_OUT_OF_RANGE.
C40_ForkKeepsBase ==
    [][/\ \A w \in ForkedViews(views') :
              /\ Len(stacks'[views'[w].stack]) >= 1
              /\ stacks'[views'[w].stack][1].id \notin held'
       /\ \A w \in ForkedViews(views) :
              stacks'[views'[w].stack][1] = stacks[views[w].stack][1]
       /\ (last'.op = "popControllers" /\ last'.view \in ForkedViews(views')) =>
              last'.outcome # "ERR_INDEX_OUT_OF_RANGE"]_vars

\* on the fork of a view without frames a frame was pushed and popped again,
\* and a second pop with the same id has just been refused: the stack still
\* has the empty frame of the fork
C40_Witness ==
    /\ last.op = "popControllers"
    /\ last.view \in ForkedViews(views)
    /\ last.outcome \notin {"ok", "ERR_INDEX_OUT_OF_RANGE"}
    /\ Len(StackOf(last.view)) = 1
    /\ DOMAIN StackOf(last.view)[1].segs = {}

C9_ForkIndependent ==
    (IsRun \/ last.op \in {"pushControllers", "popControllers"}) =>
        \A w \in ViewIds \ {last.view} :
            stacks[views[w].stack] = last.before[views[w].stack]

\* a frame pushed on the source after the fork, the forked view keeping the
\* single frame it was built with
C9_Witness ==
    /\ last.op = "pushControllers"
    /\ last.outcome = "ok"
    /\ last.view = 1
    /\ Len(views) = 2
    /\ Len(StackOf(2)) = 1
    /\ Len(StackOf(1)) = 2

(***************************************************************************)
(* Properties of the registry                                               *)
(***************************************************************************)
\* C10 (as claimed): once startPromise(name) has bound the current promise
\* id, every getCurrentContext() made while that id is current gives the view
\* forkForPromise built for the name.
C10_StartedAlwaysSeesFork ==
    \A s \in started :
        getCurrentPromiseId = s[1] => getCurrentContext = s[3]

\* C10 (amended): once startPromise(name) has bound the current promise id,
\* every getCurrentContext() made while that id is current and the name has
\* not been ended (it is still a key of _threadNameToView) gives the view
\* forkForPromise built for the name, which is not the view that was current
\* before.
C10_StartedSeesForkUntilEnded ==
    \A s \in started :
        (getCurrentPromiseId = s[1] /\ s[2] \in DOMAIN threadNameToView) =>
            /\ getCurrentContext = s[3]
            /\ s[3] # threadNameToView[DefaultName]

\* the job of a promise that started a forked context is running, the
\* promise has a parent, and the current context is the forked view
C10_Witness ==
    \E s \in started :
        /\ getCurrentPromiseId = s[1]
        /\ s[1] # 0
        /\ getParentPromiseId(s[1]) # 0
        /\ s[2] \in DOMAIN threadNameToView
        /\ getCurrentContext = s[3]
        /\ s[3] = 2

\* the parent id init announced for the task `id`, 0 when it announced none
AnnouncedParentId(id) ==
    IF \E h \in DOMAIN announced : announced[h].id = id
    THEN LET h == CHOOSE x \in DOMAIN announced : announced[x].id = id
             q == announced[h].parent
         IN  IF q = NoPromise \/ q \notin DOMAIN announced THEN 0
             ELSE announced[q].id
    ELSE 0

\* the nearest task on the announced parent chain of `id`, `id` included,
\* that is bound to a context name that has not been ended; 0 when none
RECURSIVE NearestBound(_, _)
NearestBound(id, fuel) ==
    IF id = 0 THEN 0
    ELSE IF NameOf(id) # Undefined /\ NameOf(id) \in DOMAIN threadNameToView
    THEN id
    ELSE IF fuel = 0 THEN 0
    ELSE NearestBound(AnnouncedParentId(id), fuel - 1)

\* C11 (as claimed): while the job of a promise runs, getCurrentContext()
\* gives the view of the context bound to the nearest promise on the
\* announced parent chain (the promise itself included) that is bound and
\* not ended.
C11_ContinuationInherits ==
    LET t == getCurrentPromiseId
        a == NearestBound(t, NumPromises)
    IN  (t # 0 /\ a # 0) => getCurrentContext = threadNameToView[NameOf(a)]

\* the walk over the parents of live records from `id` ends at "no promise"
\* without meeting an id that is bound to a context name
RECURSIVE ChainUnbound(_, _)
ChainUnbound(id, fuel) ==
    IF id = 0 THEN TRUE
    ELSE IF NameOf(id) # Undefined THEN FALSE
    ELSE IF fuel = 0 THEN FALSE
    ELSE ChainUnbound(getParentPromiseId(id), fuel - 1)

\* C12: when neither the current promise id nor any id on its parent chain
\* is bound to a context name, and also when no job runs,
\* getCurrentContext() gives the default view built at startup.
C12_DefaultFallback ==
    ChainUnbound(getCurrentPromiseId, NumPromises) =>
        /\ DefaultName \in DOMAIN threadNameToView
        /\ getCurrentContext = threadNameToView[DefaultName]
        /\ getCurrentContext = 1

\* the job of a promise with a live parent runs, neither is bound, a forked
\* context exists, and the current context is the default view
C12_Witness ==
    /\ getCurrentPromiseId # 0
    /\ getParentPromiseId(getCurrentPromiseId) # 0
    /\ ChainUnbound(getCurrentPromiseId, NumPromises)
    /\ Len(views) = 2
    /\ getCurrentContext = 1

\* no job runs, a forked context exists, the current context is the default
C12_WitnessIdle ==
    /\ getCurrentPromiseId = 0
    /\ Len(views) = 2
    /\ DOMAIN active_promises # {}
    /\ getCurrentContext = 1

C13_WitnessBound ==
    /\ last.op = "startPromise"
    /\ last.outcome = "ERR_INVALID_OPT_VALUE"
    /\ last.arg \in DOMAIN threadNameToView
    /\ getCurrentPromiseId = 0

\* a call in the job of an unbound promise, refused for its name
C13_WitnessUnknown ==
    /\ last.op = "startPromise"
    /\ last.outcome = "ERR_INVALID_OPT_VALUE"
    /\ last.arg \notin DOMAIN threadNameToView
    /\ getCurrentPromiseId # 0
    /\ NameOf(getCurrentPromiseId) = Undefined

\* C14 (as claimed): after endPromise(name) the name is no key of
\* _threadNameToView and no promise id is bound to it, whether the context
\* was never started, started once or started by several promises; the call
\* returns true exactly when it removed something.
C14_EndRemovesAll ==
    [][last'.op = "endPromise" =>
          /\ last'.arg \notin DOMAIN threadNameToView'
          /\ \A i \in 1 .. Len(threadIdToName') :
                 threadIdToName'[i].name # last'.arg
          /\ (last'.outcome = "true") <=>
                 (last'.arg \in DOMAIN threadNameToView
                      \/ BoundTo(last'.arg) # {})]_vars

\* C15: whatever forkForPromise, startPromise and endPromise calls are
\* made, the default context name is bound to the default view and the id
\* current at startup is bound to the default context name.
C15_DefaultAlwaysPresent ==
    /\ DefaultName \in DOMAIN threadNameToView
    /\ threadNameToView[DefaultName] = 1
    /\ NameOf(DEFAULT_THREAD_NAME) = DefaultName

\* a forked context has been started and ended, a second start of its name
\* was refused, and the default bindings are in place
C15_Witness ==
    /\ started # {}
    /\ \A s \in started : s[2] \notin DOMAIN threadNameToView
    /\ last.op = "startPromise"
    /\ last.outcome # "ok"
    /\ threadIdToName = << [id |-> DEFAULT_THREAD_NAME, name |-> DefaultName] >>
    /\ threadNameToView[DefaultName] = 1

\* C16 (as claimed): wrapPromise forks a context and binds a promise to it
\* with startPromise; once the promise it was given has settled, endPromise
\* has been called for the name, which is then in neither map, with and
\* without `finally`.
C16_WrapEndsLineage ==
    \A k \in 1 .. Len(wrapped) :
        /\ \E s \in started : s[2] = wrapped[k].name
        /\ wrapped[k].phase # "pending" =>
               /\ wrapped[k].name \notin DOMAIN threadNameToView
               /\ BoundTo(wrapped[k].name) = {}

(***************************************************************************)
(* Properties of the tracker                                                *)
(***************************************************************************)
\* the handles that get a record in this step
NewRecords == DOMAIN active_promises' \ DOMAIN active_promises

\* C17 (as claimed): the ids given to new records are positive and strictly
\* increasing, starting at 1: each is larger than every id given before, so
\* none is given twice; no live record has the id 0.
C17_IdsStrictlyIncrease ==
    [][/\ \A p \in NewRecords :
              /\ active_promises'[p].id > promise_count
              /\ active_promises'[p].id > 0
              /\ promise_count = 0 => active_promises'[p].id = 1
              /\ promise_count' = active_promises'[p].id
       /\ NewRecords = {} => promise_count' = promise_count
       /\ \A p \in DOMAIN active_promises' : active_promises'[p].id # 0]_vars

\* C18 (as claimed): after any sequence of init, before and after events
\* every id on promise_stack_ is the id of a live record.
C18_StackIdsLive ==
    \A i \in 1 .. Len(promise_stack) :
        get_promise_for_id(promise_stack[i]) # NoRecord

\* C35 (as claimed): getCurrentContext() terminates in every reachable state
\* of the tracker and the registry: the walk of _getContextId over the parent
\* ids ends for every parent graph init events can build, cycles of two or
\* more unbound promises included.
C35_LookupTerminates ==
    /\ getContextId # Diverges
    /\ getCurrentContext # Diverges

\* C36 (as claimed): after any sequence of forkForPromise, startPromise and
\* endPromise calls every context name stored in _threadIdToName is a key of
\* _threadNameToView, so getCurrentContext() returns a view and never
\* undefined, whichever promise is current.
C36_BoundNamesHaveViews ==
    /\ \A i \in 1 .. Len(threadIdToName) :
           threadIdToName[i].name \in DOMAIN threadNameToView
    /\ getCurrentContext # Undefined

\* C37: when the before and after events are properly nested and no promise
\* gets more before events than init events, getCurrentPromiseId() is the id
\* of the promise whose job is the innermost open one, the after of a job
\* finds the id of its promise on top of the executing stack, and the stack
\* is empty, getCurrentPromiseId() being 0, whenever no job is open.
C37_CurrentIdIsOpenJob ==
    /\ Len(promise_stack) = Len(jobs.open)
    /\ jobs.open = <<>> => getCurrentPromiseId = 0
    /\ jobs.open # <<>> =>
           /\ jobs.open[Len(jobs.open)] \in DOMAIN active_promises
           /\ getCurrentPromiseId
                  = active_promises[jobs.open[Len(jobs.open)]].id
           /\ promise_stack[Len(promise_stack)]
                  = active_promises[jobs.open[Len(jobs.open)]].id

\* the job of one promise has just ended inside the job of another, which
\* is the current one again
C37_Witness ==
    /\ last.op = "after"
    /\ Len(jobs.open) = 1
    /\ last.arg # jobs.open[1]
    /\ getCurrentPromiseId = active_promises[jobs.open[1]].id
    /\ getCurrentPromiseId # 0

\* the active_count of the record of `promise` in `records`, 0 without record
ActiveCountIn(records, promise) ==
    IF promise \in DOMAIN records THEN records[promise].active_count ELSE 0

\* C31: the active_count of a record is the number of init events for its
\* handle since the record was made minus the number of after events
\* processed for it: the first init makes the record with count 1, every
\* further init adds one, every after on a record takes one away, and no
\* other event changes it; a record exists exactly while the count is
\* positive, the after that brings it to 0 destroys it, and an after for a
\* handle without record changes nothing.
C31_ActiveCount ==
    [][/\ \A p \in DOMAIN active_promises' :
              active_promises'[p].active_count > 0
       /\ \A p \in Promises :
              ActiveCountIn(active_promises', p) =
                  IF last'.op = "init" /\ last'.arg = p
                  THEN ActiveCountIn(active_promises, p) + 1
                  ELSE IF last'.op = "after" /\ last'.arg = p
                          /\ p \in DOMAIN active_promises
                  THEN ActiveCountIn(active_promises, p) - 1
                  ELSE ActiveCountIn(active_promises, p)
       /\ (last'.op = "after" /\ last'.arg \notin DOMAIN active_promises) =>
              active_promises' = active_promises]_vars

\* an after has just taken one of two outstanding inits away: the record
\* is still there
C31_Witness ==
    /\ last.op = "after"
    /\ last.arg \in DOMAIN active_promises
    /\ active_promises[last.arg].active_count = MaxActive - 1

\* an after has just destroyed the record of its handle
C31_WitnessDestroyed ==
    /\ last.op = "after"
    /\ last.arg \in DOMAIN announced
    /\ last.arg \notin DOMAIN active_promises

\* C32: hook events never fail and tolerate inconsistencies.  before(t)
\* pushes t's id when t has a record and leaves the executing stack as it is
\* otherwise; after(t) pops the stack only when its top is t's id and leaves
\* it as it is otherwise, still taking one from t's active_count; after(t)
\* for a handle without record changes neither the stack nor any record;
\* resolve changes nothing.
C32_HooksTolerate ==
    [][/\ last'.op \in {"init", "resolve", "before", "after"} =>
              last'.outcome = "ok"
       /\ last'.op = "before" =>
              /\ active_promises' = active_promises
              /\ promise_stack' =
                     IF last'.arg \in DOMAIN active_promises
                     THEN Append(promise_stack, active_promises[last'.arg].id)
                     ELSE promise_stack
       /\ last'.op = "after" =>
              IF last'.arg \notin DOMAIN active_promises
              THEN /\ promise_stack' = promise_stack
                   /\ active_promises' = active_promises
              ELSE /\ promise_stack' =
                          IF /\ Len(promise_stack) > 0
                             /\ promise_stack[Len(promise_stack)]
                                    = active_promises[last'.arg].id
                          THEN SubSeq(promise_stack, 1, Len(promise_stack) - 1)
                          ELSE promise_stack
                   /\ ActiveCountIn(active_promises', last'.arg)
                          = active_promises[last'.arg].active_count - 1
       /\ last'.op = "resolve" =>
              UNCHANGED <<trackerVars, registryVars, heapVars, calls, held>>]_vars

\* an after for a handle with a record has just left a full executing stack
\* as it was: the top was not the id of the handle, since a pop would have
\* left room on the stack; the record is still there with one init less
C32_Witness ==
    /\ last.op = "after"
    /\ last.arg \in DOMAIN active_promises
    /\ Len(promise_stack) = MaxJobs
    /\ promise_stack[Len(promise_stack)] # active_promises[last.arg].id

\* an after has just come for a handle that never had a record
C32_WitnessNoRecord ==
    /\ last.op = "after"
    /\ last.arg \notin DOMAIN announced

\* the last event was an init for a handle that had a record already
IsRepeatedInit ==
    /\ last'.op = "init"
    /\ last'.arg \in DOMAIN active_promises
    /\ active_promises'[last'.arg].active_count
           = active_promises[last'.arg].active_count + 1

\* C29 (as claimed): on an init event for a handle that has a record, the
\* stored parent becomes the announced one only when the announced parent is
\* concrete and the stored parent is absent; in every other case, a concrete
\* announced parent that differs from a concrete stored one included, the
\* stored parent stays.
C29_FirstParentWins ==
    [][IsRepeatedInit =>
           active_promises'[last'.arg].parent =
               IF last'.input[1] # NoPromise
                  /\ active_promises[last'.arg].parent = NoPromise
               THEN last'.input[1]
               ELSE active_promises[last'.arg].parent]_vars

\* the id getParentPromiseId finds for the record of `promise` in `records`
ParentIdIn(records, promise) ==
    IF records[promise].parent \in DOMAIN records
    THEN records[records[promise].parent].id
    ELSE 0

\* C30: an init event that announces no parent for a handle whose record has
\* a concrete parent leaves that parent, and the parent id of the handle, as
\* they were.
C30_NullKeepsParent ==
    [][(IsRepeatedInit /\ last'.input[1] = NoPromise
           /\ active_promises[last'.arg].parent # NoPromise) =>
           /\ active_promises'[last'.arg].parent
                  = active_promises[last'.arg].parent
           /\ ParentIdIn(active_promises', last'.arg)
                  = ParentIdIn(active_promises, last'.arg)]_vars

\* an init event without parent has just come for a handle whose record was
\* made with a parent
C30_Witness ==
    /\ last.op = "init"
    /\ last.input = <<NoPromise>>
    /\ last.arg \in DOMAIN active_promises
    /\ active_promises[last.arg].active_count >= 2
    /\ active_promises[last.arg].parent \in DOMAIN active_promises

(***************************************************************************)
(* Properties of FileAccessController                                       *)
(***************************************************************************)
\* the controller the last wrapped call found for the segment "fileaccess"
FileController == getSegmentController(StackBefore, FILE_ACCESS)

\* the last call was a wrapped call that found a FileAccessController and
\* whose per-call data createChild accepted
IsFileCall ==
    /\ last.op \in {"runInContext", "target"}
    /\ FileController # Null
    /\ FileAccessController_createChild(FileController, last.input.data).err
           = "ok"

\* the paths the last wrapped call declares under a kind, as they are checked
DeclaredPaths(value) ==
    {normalizePath(getResourceArg(toStringList(value).list[i],
                                  last.input.args)) :
        i \in 1 .. Len(toStringList(value).list)}

DeclaredUnmatched ==
    {p \in DeclaredPaths(last.input.data.read) :
        ~isMatched(p, FileController.readable)}
    \cup {p \in DeclaredPaths(last.input.data.write) :
             ~isMatched(p, FileController.writable)}
    \cup {p \in DeclaredPaths(last.input.data.list) :
             ~isMatched(p, FileController.listable)}

\* the checks the flags of the call ask for, and whether all of them pass
FlagChecksOfLast ==
    FlagChecks(FileAccessController_createChild(FileController,
                                                last.input.data).child,
               last.input.args)

FlagChecksPass ==
    \A i \in 1 .. Len(FlagChecksOfLast) :
        isMatched(FlagChecksOfLast[i].value, FlagChecksOfLast[i].matcher)

\* the last wrapped call was refused: the error, the value it carries, the
\* wrapped function not started, the per-call frame gone
ForbiddenCarrying(values) ==
    /\ last.op = "runInContext"
    /\ last.outcome = "ERR_FILE_ACCESS_FORBIDDEN"
    /\ ~last.target
    /\ last.log[Len(last.log)].ev = "throw"
    /\ last.log[Len(last.log)].value \in values
    /\ last.arg \notin FrameIds(StackOf(last.view))
    /\ stacks = last.before

\* C19: when a path that a wrapped call declares under read, write or list is
\* not matched by the controller's matcher of that kind, the call fails with
\* ERR_FILE_ACCESS_FORBIDDEN carrying that path (or, when the check of the
\* flags fails before it, the path of that check), the wrapped function is
\* not run and the per-call frame is popped; when every declared path is
\* matched and the flags ask for nothing that is refused, the wrapped function
\* runs on top of the per-call frame and what it gives is what the call gives,
\* the frame being popped.
C19_DeclaredPathsChecked ==
    IsFileCall =>
        /\ DeclaredUnmatched # {} =>
               ForbiddenCarrying(
                   IF FlagChecksPass THEN DeclaredUnmatched
                   ELSE {FlagChecksOfLast[1].value})
        /\ (DeclaredUnmatched = {} /\ FlagChecksPass) =>
               /\ last.target
               /\ last.op = "target" => IsTop(StackOf(last.view), last.arg)
               /\ last.op = "runInContext" =>
                      /\ last.outcome = last.inner
                      /\ last.arg \notin FrameIds(StackOf(last.view))
                      /\ stacks = StacksWith(last.view, AllButTop(StackBefore))

\* a call that reads "/b/f" under a controller whose readable is "/a/" is
\* refused with that path
C19_Witness ==
    /\ IsFileCall
    /\ FileController.readable = toMatcher(DirA, "readable").matcher
    /\ last.input.data.read = ArgDef(0)
    /\ last.input.args = <<FileBF>>
    /\ ForbiddenCarrying({FileBF})

\* a call that reads "/b/../a/f" under the same controller has run its
\* wrapped function, which returned
C19_WitnessRuns ==
    /\ IsFileCall
    /\ last.op = "runInContext"
    /\ FileController.readable = toMatcher(DirA, "readable").matcher
    /\ last.input.data.read = ArgDef(0)
    /\ last.input.args = <<FileBUpAF>>
    /\ last.target
    /\ last.outcome = "ok"

\* the values the options of a kind have when the kind is not granted
EmptyPatterns == {JsNull, JsUndefined, Arr(<<>>)}

\* the strings and other values the calls of the model pass as paths
SampleValues ==
    UNION {{a[i] : i \in 1 .. Len(a)} : a \in FileArgs}
        \cup {Str(<<"">>), Str(<<"", "">>), Str(<<".">>), Str(<<"a">>)}

\* a declared access of a kind whose matcher comes from an empty pattern is
\* refused
DeniedByDefault(matcher, declared) ==
    (matcher \in {toMatcher(v, "options").matcher : v \in EmptyPatterns}
        /\ DeclaredPaths(declared) # {}) =>
            /\ last.op = "runInContext"
            /\ last.outcome = "ERR_FILE_ACCESS_FORBIDDEN"
            /\ ~last.target

\* C20: the matcher compiled from null, undefined or [] returns false on
\* every input, and a controller whose matcher of a kind (readable, writable,
\* listable) was compiled from one of them refuses every wrapped call that
\* declares a path of that kind, whatever the path.
C20_DeniedByDefault ==
    /\ \A v \in EmptyPatterns, s \in SampleValues :
           /\ toMatcher(v, "options").err = "ok"
           /\ ~isMatched(s, toMatcher(v, "options").matcher)
    /\ IsFileCall =>
           /\ DeniedByDefault(FileController.readable, last.input.data.read)
           /\ DeniedByDefault(FileController.writable, last.input.data.write)
           /\ DeniedByDefault(FileController.listable, last.input.data.list)

\* a call that writes "/a/f" was refused by a controller built from
\* {readable: "/a/"}, which grants "/a/f" for reading
C20_Witness ==
    /\ IsFileCall
    /\ FileController.readable = toMatcher(DirA, "readable").matcher
    /\ FileController.writable = toMatcher(JsUndefined, "writable").matcher
    /\ last.input.data.write = ArgDef(0)
    /\ last.input.args = <<FileAF>>
    /\ last.outcome = "ERR_FILE_ACCESS_FORBIDDEN"
    /\ ~last.target

\* a call that reads "/a/f" was refused by a controller built with
\* readable: []
C20_WitnessEmptyArray ==
    /\ IsFileCall
    /\ FileController.readable = toMatcher(Arr(<<>>), "readable").matcher
    /\ last.input.data.read = ArgDef(0)
    /\ last.input.args = <<FileAF>>
    /\ last.outcome = "ERR_FILE_ACCESS_FORBIDDEN"
    /\ ~last.target


\* the per-call controller of the last wrapped call
ChildOfLast ==
    FileAccessController_createChild(FileController, last.input.data).child

\* the flags of the last wrapped call, as the caller passed them
FlagsOfLast == getResourceArg(ChildOfLast.context.flags, last.input.args)

\* the characters of those flags
FlagCharsOfLast ==
    {CharsOf(FlagsOfLast.segs[1])[i] :
        i \in 1 .. Len(CharsOf(FlagsOfLast.segs[1]))}

\* the last wrapped call declares flags that resolve to a string, and a path
HasFlags ==
    /\ IsFileCall
    /\ isString(ChildOfLast.context.flags)
    /\ isString(FlagsOfLast)
    /\ isString(ContextPath(ChildOfLast, last.input.args))

\* the last wrapped call was refused and its wrapped function not started
Forbidden ==
    /\ last.op = "runInContext"
    /\ last.outcome = "ERR_FILE_ACCESS_FORBIDDEN"
    /\ ~last.target

PathReadable ==
    isMatched(ContextPath(ChildOfLast, last.input.args),
              FileController.readable)

PathWritable ==
    isMatched(ContextPath(ChildOfLast, last.input.args),
              FileController.writable)

\* C21: when the flags of a wrapped call resolve to a string and its path is
\* not null, the path must be readable iff the flags contain `r` or `+` and
\* writable iff they contain `w`, `a` or `+`, at any position: a call that
\* asks for an access the controller does not grant is refused, and a call
\* whose flags ask for nothing that is refused, and that declares no other
\* path that is refused, runs its wrapped function.
C21_FlagsDecoded ==
    HasFlags =>
        /\ (FlagCharsOfLast \cap {"r", "+"} # {} /\ ~PathReadable)
               => Forbidden
        /\ (FlagCharsOfLast \cap {"w", "a", "+"} # {} /\ ~PathWritable)
               => Forbidden
        /\ ((FlagCharsOfLast \cap {"r", "+"} # {} => PathReadable)
                /\ (FlagCharsOfLast \cap {"w", "a", "+"} # {} => PathWritable)
                /\ DeclaredUnmatched = {})
               => last.target

\* parseInt(m, 8) for the strings callers pass as mode
ParseOctal(piece) ==
    CASE piece = "222" -> 146
      [] piece = "444" -> 292
      [] piece = "666" -> 438
      [] OTHER -> -1

\* the mode of the last wrapped call, as the caller passed it
ModeOfLast == getResourceArg(ChildOfLast.context.mode, last.input.args)

\* bit b (a power of two) is set in m
HasBit(m, b) == (m \div b) % 2 = 1

\* the last wrapped call declares a mode that resolves to an octal string,
\* and a path
HasMode ==
    /\ IsFileCall
    /\ isString(ChildOfLast.context.mode)
    /\ isString(ModeOfLast)
    /\ ParseOctal(ModeOfLast.segs[1]) >= 0
    /\ isString(ContextPath(ChildOfLast, last.input.args))

\* C22: when the mode of a wrapped call resolves to a string and its path is
\* not null, the mode is read as octal; a read bit (0o444) on a path that is
\* not readable, or a write bit (0o222) on a path that is not writable, has
\* the call refused with ERR_FILE_ACCESS_FORBIDDEN.
C22_ModeDecoded ==
    HasMode =>
        /\ ((\E b \in {256, 32, 4} :
                HasBit(ParseOctal(ModeOfLast.segs[1]), b)) /\ ~PathReadable)
               => Forbidden
        /\ ((\E b \in {128, 16, 2} :
                HasBit(ParseOctal(ModeOfLast.segs[1]), b)) /\ ~PathWritable)
               => Forbidden


(***************************************************************************)
(* Properties of wrapFunction                                               *)
(***************************************************************************)
\* the frames of the current context that were pushed by pushControllers:
\* the calls in progress have pushed the frames above them
PushedFrames == SubSeq(StackOf(1), 1, Len(StackOf(1)) - Len(calls))

\* the controller the calls in progress started from
RootFileController == getSegmentController(PushedFrames, FILE_ACCESS)

\* the controller call k runs under
ChildOfCall(k) == StackOf(1)[Len(PushedFrames) + k].segs[FILE_ACCESS]

\* the controller createChild was called on for call k
ParentOfCall(k) == IF k = 1 THEN RootFileController ELSE ChildOfCall(k - 1)

\* the descriptor the constructor gives a controller
FreshContext == FileAccessController(FileOptionsOf(JsNull, JsNull, JsNull))
                    .controller.context

\* C34: a controller made by createChild, at any nesting depth, decides with
\* the matchers of the controller that was pushed: for every path and kind
\* its matcher gives what the matcher of the pushed controller gives; and
\* createChild leaves the controller it is called on as it was: the pushed
\* controllers keep the descriptor of the constructor, and the controller of
\* an outer call keeps the descriptor of its own call while inner calls run.
C34_ChildSharesMatchers ==
    /\ \A i \in 1 .. Len(PushedFrames) :
           FILE_ACCESS \in DOMAIN PushedFrames[i].segs =>
               PushedFrames[i].segs[FILE_ACCESS].context = FreshContext
    /\ RootFileController # Null =>
           \A k \in 1 .. Len(calls) :
               /\ ChildOfCall(k).readable = RootFileController.readable
               /\ ChildOfCall(k).writable = RootFileController.writable
               /\ ChildOfCall(k).listable = RootFileController.listable
               /\ \A s \in MatcherInputs :
                      /\ Matches(ChildOfCall(k).readable, s)
                             = Matches(RootFileController.readable, s)
                      /\ Matches(ChildOfCall(k).writable, s)
                             = Matches(RootFileController.writable, s)
                      /\ Matches(ChildOfCall(k).listable, s)
                             = Matches(RootFileController.listable, s)
               /\ ChildOfCall(k) =
                      FileAccessController_createChild(
                          ParentOfCall(k), calls[k].segmentOptions.data).child

\* a wrapped function runs inside another one, under the child of a child,
\* the two calls having declared different resources
C34_Witness ==
    /\ Len(calls) = 2
    /\ RootFileController # Null
    /\ calls[1].segmentOptions.data # calls[2].segmentOptions.data
    /\ ChildOfCall(1).context # ChildOfCall(2).context

\* the values the last wrapped call declares under read, write or list
DeclaredValues ==
    DeclaredPaths(last.input.data.read)
        \cup DeclaredPaths(last.input.data.write)
        \cup DeclaredPaths(last.input.data.list)

C38_WitnessRefused ==
    /\ IsFileCall
    /\ last.input.data.read = ArgDef(0)
    /\ last.input.args = <<JsNull>>
    /\ ForbiddenCarrying({JsNull})

\* a value that is an object and not null
typeofObjectNotNull(value) ==
    value.type \in {"array", "object", "record", "regexp"}

\* what the claim has _getResourceArg return
ClaimedResourceArg(resourceDef, args) ==
    IF isString(resourceDef) /\ ArgumentIndex(resourceDef) >= 0
    THEN IF ArgumentIndex(resourceDef) < Len(args)
         THEN args[ArgumentIndex(resourceDef) + 1]
         ELSE JsUndefined
    ELSE IF isString(resourceDef) /\ OptionRef(resourceDef).index >= 0
    THEN IF /\ OptionRef(resourceDef).index < Len(args)
            /\ typeofObjectNotNull(args[OptionRef(resourceDef).index + 1])
         THEN Member(args[OptionRef(resourceDef).index + 1],
                     OptionRef(resourceDef).key)
         ELSE JsUndefined
    ELSE resourceDef

\* C33 (as claimed): _getResourceArg returns args[N] for {N} with N in range
\* and undefined otherwise; for {N.key} it returns args[N][key] when args[N]
\* is an object and undefined in every other case (N out of range, args[N] a
\* primitive, args[N] null), without raising; any other definition is
\* returned as it is.
C33_ResolvePlaceholder ==
    last.op = "getResourceArg" =>
        /\ last.outcome = "ok"
        /\ last.log[1] = ClaimedResourceArg(last.input.resourceDef,
                                            last.input.args)

\* C23: a function wrapFunction returned resolves the view at each call: a
\* call that got as far as runInContext ran it on the view that the registry
\* gives for the job that is current at the call, whatever view was current
\* when the function was wrapped.
C23_ViewResolvedAtCall ==
    ((last.op = "target" \/ (last.op = "runInContext" /\ ~last.target))
        /\ last.outcome # "TypeError") =>
            last.view = getCurrentContext

\* one wrapped function, made in the default context, has run on the view of
\* the default context and, in the job of a promise that started a forked
\* context, on the view of that context
C23_Witness ==
    /\ last.op = "target"
    /\ last.view = 2
    /\ promise_stack # <<>>
    /\ \E k \in 1 .. Len(wrappers) :
          /\ wrappers[k].madeOn = 1
          /\ wrappers[k].ranOn = {1, 2}


(***************************************************************************)
(* Properties of the matchers                                               *)
(***************************************************************************)
\* the pattern is a string that _mkGlobMatcher does not read as `re:`
IsPathPattern(pattern) ==
    /\ isString(pattern)
    /\ pattern.segs # <<"">>
    /\ ~(Len(CharsOfString(pattern.segs)) >= 3
           /\ SubSeq(CharsOfString(pattern.segs), 1, 3) = <<"r", "e", ":">>)

EndsInSeparator(pattern) ==
    Len(pattern.segs) > 1 /\ pattern.segs[Len(pattern.segs)] = ""

\* the segments of a string that are not empty
NonEmptySegments(segs) == SelectSeq(segs, LAMBDA x : x # "")

\* the directory a pattern that ends in a separator names: the normalized
\* pattern without that separator
DirectoryOf(pattern) ==
    IF normalize(pattern.segs)[Len(normalize(pattern.segs))] = ""
    THEN SubSeq(normalize(pattern.segs), 1, Len(normalize(pattern.segs)) - 1)
    ELSE normalize(pattern.segs)

\* s is the directory followed by a separator and at least one further
\* segment
StrictSubPath(s, directory) ==
    /\ Len(s) > Len(directory)
    /\ SubSeq(s, 1, Len(directory)) = directory
    /\ \E i \in Len(directory) + 1 .. Len(s) : s[i] # ""

\* C24: a matcher compiled from a string without `*` or `?` that ends in a
\* separator returns true exactly for the strict sub-paths of that directory
\* (the stripped prefix, a separator and at least one further segment), and
\* false for the directory itself, written with or without a trailing
\* separator, and for siblings that share the prefix.
C24_DirectoryPrefix ==
    \A k \in 1 .. Len(compiled) :
        (IsPathPattern(compiled[k].pattern)
            /\ ~isGlob(CharsOfString(compiled[k].pattern.segs))
            /\ EndsInSeparator(compiled[k].pattern)) =>
                \A c \in 1 .. Len(compiled[k].calls) :
                    (compiled[k].calls[c].result = "true")
                        <=> StrictSubPath(compiled[k].calls[c].input,
                                          DirectoryOf(compiled[k].pattern))

\* the usual reading of a glob on one segment: `?` is one character, `*` any
\* run of characters
RECURSIVE WildMatch(_, _, _, _)
WildMatch(pchars, i, schars, j) ==
    IF i > Len(pchars) THEN j > Len(schars)
    ELSE IF pchars[i] = "*"
    THEN WildMatch(pchars, i + 1, schars, j)
             \/ (j <= Len(schars) /\ WildMatch(pchars, i, schars, j + 1))
    ELSE IF pchars[i] = "?"
    THEN j <= Len(schars) /\ WildMatch(pchars, i + 1, schars, j + 1)
    ELSE j <= Len(schars) /\ schars[j] = pchars[i]
             /\ WildMatch(pchars, i + 1, schars, j + 1)

SegmentMatches(psegment, ssegment) ==
    IF isGlob(CharsOf(psegment))
    THEN WildMatch(CharsOf(psegment), 1, CharsOf(ssegment), 1)
    ELSE ssegment = psegment

\* the first n segments of s match the segments of the pattern one by one
LeadingSegmentsMatch(pattern, s) ==
    LET psegments == NonEmptySegments(normalize(pattern.segs))
        ssegments == NonEmptySegments(s)
    IN  /\ Len(ssegments) >= Len(psegments)
        /\ \A i \in 1 .. Len(psegments) :
               SegmentMatches(psegments[i], ssegments[i])

IsGlobPattern(pattern) ==
    IsPathPattern(pattern) /\ isGlob(CharsOfString(pattern.segs))

\* C25: a glob matcher without trailing separator returns true iff, after
\* dropping the empty segments of the input, the input has exactly as many
\* segments as the pattern and each of them equals the literal segment of the
\* pattern or matches its glob (`?` one character, `*` any run of characters
\* inside the segment).
C25_GlobSegments ==
    \A k \in 1 .. Len(compiled) :
        (IsGlobPattern(compiled[k].pattern)
            /\ ~EndsInSeparator(compiled[k].pattern)) =>
                \A c \in 1 .. Len(compiled[k].calls) :
                    (compiled[k].calls[c].result = "true")
                        <=> (/\ LeadingSegmentsMatch(compiled[k].pattern,
                                                     compiled[k].calls[c].input)
                             /\ Len(NonEmptySegments(compiled[k].calls[c].input))
                                    = Len(NonEmptySegments(
                                          normalize(compiled[k].pattern.segs))))

\* C26: a glob matcher whose pattern ends in a separator returns true iff the
\* leading segments of the input match the segments of the pattern one by one
\* and at least one further non-empty segment follows, so that the directory
\* itself is rejected with or without a trailing separator; and the entry
\* that stands for "any remainder" is made for a trailing separator only:
\* it is the last entry, of a pattern that ends in a separator.
C26_GlobDirectory ==
    \A k \in 1 .. Len(compiled) :
        IsGlobPattern(compiled[k].pattern) =>
            /\ EndsInSeparator(compiled[k].pattern) =>
                   \A c \in 1 .. Len(compiled[k].calls) :
                       (compiled[k].calls[c].result = "true")
                           <=> (/\ LeadingSegmentsMatch(
                                       compiled[k].pattern,
                                       compiled[k].calls[c].input)
                                /\ Len(NonEmptySegments(
                                       compiled[k].calls[c].input))
                                       > Len(NonEmptySegments(
                                             normalize(compiled[k].pattern.segs))))
            /\ \A i \in 1 .. Len(compiled[k].matcher.globs) :
                   compiled[k].matcher.globs[i] = GlobString("**") =>
                       /\ i = Len(compiled[k].matcher.globs)
                       /\ EndsInSeparator(compiled[k].pattern)

\* the matcher of "/a/*/" has accepted "/a/g/f" and rejected "/a/f/" and
\* "/a/f"
C26_Witness ==
    \E k \in 1 .. Len(compiled) :
        /\ compiled[k].pattern = Str(<<"", "a", "*", "">>)
        /\ compiled[k].calls =
               << [input |-> <<"", "a", "g", "f">>, result |-> "true"],
                  [input |-> <<"", "a", "f", "">>, result |-> "false"],
                  [input |-> <<"", "a", "f">>, result |-> "false"] >>

\* the matcher of "/**/f", a pattern with `**` in the middle, has rejected
\* "/a/g/f"
C26_WitnessStarStar ==
    \E k \in 1 .. Len(compiled) :
        /\ compiled[k].pattern = Str(<<"", "**", "f">>)
        /\ \E c \in 1 .. Len(compiled[k].calls) :
              compiled[k].calls[c] =
                  [input |-> <<"", "a", "g", "f">>, result |-> "false"]

\* C27: a matcher compiled from an array returns true on an input iff the
\* matcher compiled from one of the elements of the array returns true on it,
\* and it never fails, whatever mix of strings and RegExp objects the array
\* holds.
C27_ListMatcher ==
    \A k \in 1 .. Len(compiled) :
        compiled[k].pattern.type = "array" =>
            \A c \in 1 .. Len(compiled[k].calls) :
                /\ compiled[k].calls[c].result \in {"true", "false"}
                /\ (compiled[k].calls[c].result = "true")
                       <=> \E i \in 1 .. Len(compiled[k].pattern.items) :
                              CallMatcher(
                                  toMatcher(compiled[k].pattern.items[i],
                                            "readable").matcher,
                                  compiled[k].calls[c].input,
                                  [id \in 1 .. Len(RegExpObjects) |-> 0]).result
                                  = "true"

\* C28: a compiled matcher is a function of its pattern and its input: two
\* calls of the same matcher on the same input give the same result, whatever
\* calls were made in between.
C28_MatcherPure ==
    \A k \in 1 .. Len(compiled) :
        \A c \in 1 .. Len(compiled[k].calls) :
            \A d \in 1 .. Len(compiled[k].calls) :
                compiled[k].calls[c].input = compiled[k].calls[d].input =>
                    compiled[k].calls[c].result = compiled[k].calls[d].result

====
